---- MODULE Spec2Model ----
(***************************************************************************)
(* Model of the WebGL fluid simulation engine of docs/fluid-simulation.js. *)
(*                                                                         *)
(* The engine is a sequence of GL calls against one rendering context.     *)
(* The model keeps the part of the context state those calls read and      *)
(* write (current program, uniform values of every program, texture units, *)
(* bound framebuffer), the fields of the FluidSimulation object, and a log *)
(* of the drawElements calls of the last API call.                         *)
(*                                                                         *)
(* Real numbers are fixed-point integers in millionths (FP units): 1.0 is  *)
(* FP, the clock of performance.now() is in millionths of a millisecond.   *)
(***************************************************************************)
EXTENDS Integers, Sequences, FiniteSets, TLC

VARIABLES sim, gl, draws, prev, lastCall, calls, host

vars == <<sim, gl, draws, prev, lastCall, calls, host>>

----------------------------------------------------------------------------
(* Bounds of the model. *)

MaxCalls == 3
MaxIterations == 2

\* The frames the host draws.
MaxFrames == 2

\* The largest canvas side the resolution planner is asked about.
MaxSide == 13

FP == 1000000

----------------------------------------------------------------------------
(* Fixed-point helpers. *)

Abs(a) == IF a < 0 THEN -a ELSE a

Min(a, b) == IF a < b THEN a ELSE b

Max(a, b) == IF a > b THEN a ELSE b

\* JavaScript Math.round of the quotient n / d (d > 0): nearest, halves up.
RoundDiv(n, d) == (2 * n + d) \div (2 * d)

\* 10^k.
RECURSIVE FP10(_)
FP10(k) == IF k = 0 THEN 1 ELSE 10 * FP10(k - 1)

\* floor((a * b + r) / FP) for two fixed-point numbers and 0 <= r < FP.  The
\* factors are split in thousands so that no partial product leaves 32 bits.
MulAdd(a, b, r) ==
  LET ah == a \div 1000
      al == a % 1000
      bh == b \div 1000
      bl == b % 1000
      q1 == ah * bl + al * bh
  IN ah * bh + (q1 \div 1000) + (((q1 % 1000) * 1000 + al * bl + r) \div FP)

\* a * b, rounded to the nearest millionth.
Mul(a, b) == MulAdd(a, b, 500000)

\* The decimal digits of r / b (0 <= r < b) after the point, k of them.
RECURSIVE Digits(_, _, _)
Digits(r, b, k) ==
  IF k = 0 THEN 0
  ELSE LET d == (r * 10) \div b
       IN d * FP10(k - 1) + Digits((r * 10) % b, b, k - 1)

\* a / b of two fixed-point numbers (b > 0), truncated to the millionth.
Div(a, b) ==
  IF a < 0 THEN 0 - ((Abs(a) \div b) * FP + Digits(Abs(a) % b, b, 6))
  ELSE (a \div b) * FP + Digits(a % b, b, 6)

\* e^-1 in millionths.
E_INV == 367879

\* The Taylor polynomial of exp(-f) for 0 <= f < 1, term k onwards; term is
\* f^(k-1) / (k-1)! with its sign.
RECURSIVE ExpSeries(_, _, _)
ExpSeries(f, term, k) ==
  IF k > 12 \/ term = 0 THEN 0
  ELSE term + ExpSeries(f, 0 - (Mul(term, f) \div k), k + 1)

RECURSIVE PowEInv(_)
PowEInv(n) == IF n = 0 THEN FP ELSE IF n > 14 THEN 0 ELSE Mul(E_INV, PowEInv(n - 1))

\* exp(-t) for t >= 0.
ExpNeg(t) == Mul(PowEInv(t \div FP), ExpSeries(t % FP, FP, 1))

\* The largest s in lo .. hi with s * s <= v (fixed point), by bisection.
RECURSIVE SqrtSearch(_, _, _)
SqrtSearch(v, lo, hi) ==
  IF lo >= hi THEN lo
  ELSE LET mid == (lo + hi + 1) \div 2
       IN IF MulAdd(mid, mid, FP - 1) <= v THEN SqrtSearch(v, mid, hi)
                                ELSE SqrtSearch(v, lo, mid - 1)

\* sqrt(v) for 0 <= v; no representable number has a root above 46.
Sqrt(v) == SqrtSearch(v, 0, Min(Max(v, FP), 46 * FP))

----------------------------------------------------------------------------
(* The grids (framebuffer objects) and the shader programs. *)

Buffers == {"d1", "d2", "v1", "v2", "p1", "p2", "div", "curl"}

Screen == "screen"

Fields == {"velocity", "density", "pressure"}

Programs == {"splat", "advection", "divergence", "curl", "vorticity",
             "pressure", "gradientSubtract", "display", "clear"}

\* The sampler uniforms each fragment shader declares and reads.
Samplers ==
  [splat            |-> {"uTarget"},
   advection        |-> {"uVelocity", "uSource"},
   divergence       |-> {"uVelocity"},
   curl             |-> {"uVelocity"},
   vorticity        |-> {"uVelocity", "uCurl"},
   pressure         |-> {"uPressure", "uDivergence"},
   gradientSubtract |-> {"uPressure", "uVelocity"},
   display          |-> {"uTexture"},
   clear            |-> {"uTexture"}]

\* The uniforms of each linked program with the value GL gives them at link
\* time (zero).  getUniforms collects exactly the active uniforms.
getUniforms ==
  [splat            |-> [uTarget |-> 0, aspectRatio |-> 0, color |-> <<0, 0, 0>>,
                         point |-> <<0, 0>>, radius |-> 0],
   advection        |-> [uVelocity |-> 0, uSource |-> 0, texelSize |-> <<0, 0>>,
                         dt |-> 0, dissipation |-> 0],
   divergence       |-> [uVelocity |-> 0, texelSize |-> <<0, 0>>],
   curl             |-> [uVelocity |-> 0, texelSize |-> <<0, 0>>],
   vorticity        |-> [uVelocity |-> 0, uCurl |-> 0, texelSize |-> <<0, 0>>,
                         curl |-> 0, dt |-> 0],
   pressure         |-> [uPressure |-> 0, uDivergence |-> 0, texelSize |-> <<0, 0>>],
   gradientSubtract |-> [uPressure |-> 0, uVelocity |-> 0, texelSize |-> <<0, 0>>],
   display          |-> [uTexture |-> 0],
   clear            |-> [uTexture |-> 0, value |-> 0]]

createPrograms == getUniforms

----------------------------------------------------------------------------
(* Texture storage.  A texel is <<x, y, z, w>>; a grid is its width, its   *)
(* height and its texels row by row: cell <<i, j>>, 0 <= i < width and     *)
(* 0 <= j < height, is element j * width + i + 1 of data.                  *)

\* The scale 2^k of the 11-bit significand a half float keeps for the
\* magnitude a: the largest p = 2^k, k <= 19, with a * p < 2^11.
RECURSIVE HalfScale(_, _)
HalfScale(a, p) ==
  IF p < 524288 /\ a < (1024 * FP) \div p THEN HalfScale(a, 2 * p) ELSE p

\* A value stored as HALF_FLOAT: 11 significant bits.  Below 2^-9 the half
\* floats are closer than a millionth and the value is kept.
Half(v) ==
  LET a == Abs(v)
      p == HalfScale(a, 1)
      m == (a * p + (FP \div 2)) \div FP
      h == (m * FP + (p \div 2)) \div p
  IN IF a < 1953 THEN v ELSE IF v < 0 THEN 0 - h ELSE h

\* A value stored as UNSIGNED_BYTE: clamped to [0, 1], one of 256 levels.
Unorm8(v) ==
  LET c == Max(0, Min(v, FP))
      k == (c * 255 + (FP \div 2)) \div FP
  IN (k * FP + 127) \div 255

\* What createFBO asks for: gl.RGBA, gl.RG or gl.R.
InternalFormat ==
  [d1 |-> "RGBA", d2 |-> "RGBA", v1 |-> "RG", v2 |-> "RG",
   p1 |-> "R", p2 |-> "R", div |-> "R", curl |-> "R"]

\* The texel a later sample returns after a fragment colour was written to
\* grid b: RGBA16F, RG16F or R16F on a WebGL2 context, RGBA/UNSIGNED_BYTE
\* otherwise and on the canvas.
Store(version, b, c) ==
  IF b = Screen \/ version # "webgl2"
  THEN <<Unorm8(c[1]), Unorm8(c[2]), Unorm8(c[3]), Unorm8(c[4])>>
  ELSE CASE InternalFormat[b] = "R"  -> <<Half(c[1]), 0, 0, FP>>
         [] InternalFormat[b] = "RG" -> <<Half(c[1]), Half(c[2]), 0, FP>>
         [] OTHER -> <<Half(c[1]), Half(c[2]), Half(c[3]), Half(c[4])>>

\* n copies of the texel t.
RECURSIVE Texels(_, _)
Texels(n, t) == IF n = 0 THEN <<>> ELSE Append(Texels(n - 1, t), t)

\* gl.clear(COLOR_BUFFER_BIT) of a new w x h texture: all zero.
ClearedGrid(version, b, w, h) ==
  [width |-> w, height |-> h, data |-> Texels(w * h, Store(version, b, <<0, 0, 0, 0>>))]

Clamp(i, lo, hi) == Max(lo, Min(i, hi))

\* One texel, CLAMP_TO_EDGE.
Texel(g, i, j) ==
  g.data[Clamp(j, 0, g.height - 1) * g.width + Clamp(i, 0, g.width - 1) + 1]

\* mix(a, b, t) = a + (b - a) * t
Mix(a, b, t) == a + Mul(b - a, t)

\* mix of two texels, channel by channel.
MixTexel(a, b, t) ==
  <<Mix(a[1], b[1], t), Mix(a[2], b[2], t), Mix(a[3], b[3], t), Mix(a[4], b[4], t)>>

\* The LINEAR filter: the four texels around cell <<i, j>> weighted by the
\* fractions fx and fy.
Bilinear(g, i, j, fx, fy) ==
  IF fx = 0 /\ fy = 0 THEN Texel(g, i, j)
  ELSE MixTexel(MixTexel(Texel(g, i, j), Texel(g, i + 1, j), fx),
                MixTexel(Texel(g, i, j + 1), Texel(g, i + 1, j + 1), fx), fy)

\* The sample at the texel coordinates <<x, y>>, measured from the centre of
\* cell <<0, 0>>.
Filter(g, x, y) == Bilinear(g, x \div FP, y \div FP, x % FP, y % FP)

\* texture2D(g, uv) with LINEAR filtering.
texture2D(g, uv) ==
  Filter(g, uv[1] * g.width - (FP \div 2), uv[2] * g.height - (FP \div 2))

----------------------------------------------------------------------------
(* JavaScript numbers in the resolution planner: IEEE 754 doubles.  A      *)
(* positive double is [m, e] with value m * 2^e and 2^52 <= m < 2^53; m is *)
(* a sequence of five 15-bit limbs, the least significant first.           *)

LIMB == 32768

\* The small natural n (n < 2^30) as limbs.
BigOf(n) == <<n % LIMB, (n \div LIMB) % LIMB, 0, 0, 0>>

\* 2^52, 2^53 and 2^54.
Big52 == <<0, 0, 0, 128, 0>>

Big53 == <<0, 0, 0, 256, 0>>

Big54 == <<0, 0, 0, 512, 0>>

\* x * r + carry from limb i on (r < 2^15).
RECURSIVE BigScale(_, _, _, _)
BigScale(x, r, i, carry) ==
  IF i > Len(x) THEN <<>>
  ELSE <<(x[i] * r + carry) % LIMB>>
         \o BigScale(x, r, i + 1, (x[i] * r + carry) \div LIMB)

\* x - y from limb i on (x >= y).
RECURSIVE BigSub(_, _, _, _)
BigSub(x, y, i, borrow) ==
  IF i > Len(x) THEN <<>>
  ELSE IF x[i] - y[i] - borrow < 0
       THEN <<x[i] - y[i] - borrow + LIMB>> \o BigSub(x, y, i + 1, 1)
       ELSE <<x[i] - y[i] - borrow>> \o BigSub(x, y, i + 1, 0)

\* x < y, comparing from limb i down.
RECURSIVE BigLess(_, _, _)
BigLess(x, y, i) ==
  IF i = 0 THEN FALSE
  ELSE IF x[i] # y[i] THEN x[i] < y[i] ELSE BigLess(x, y, i - 1)

\* floor(x / 2) from limb i on.
RECURSIVE BigHalve(_, _)
BigHalve(x, i) ==
  IF i > Len(x) THEN <<>>
  ELSE <<(x[i] \div 2) + (IF i < Len(x) THEN (x[i + 1] % 2) * (LIMB \div 2) ELSE 0)>>
         \o BigHalve(x, i + 1)

BigOdd(x) == x[1] % 2 = 1

\* The value of a number below 2^30.
BigToInt(x) == x[1] + LIMB * x[2]

\* Round to nearest, ties to even: x * 2^e with the bits below x lost, of
\* which round is the first and sticky says whether any later one was set.
RoundToEven(x, e, round, sticky) ==
  IF round /\ (sticky \/ BigOdd(x))
  THEN IF BigScale(x, 1, 1, 1) = Big53 THEN [m |-> Big52, e |-> e + 1]
       ELSE [m |-> BigScale(x, 1, 1, 1), e |-> e]
  ELSE [m |-> x, e |-> e]

\* The double nearest to x * 2^e (x > 0), given the lost bits.
RECURSIVE Normal(_, _, _, _)
Normal(x, e, round, sticky) ==
  IF BigLess(x, Big52, Len(x)) THEN Normal(BigScale(x, 2, 1, 0), e - 1, FALSE, FALSE)
  ELSE IF BigLess(x, Big53, Len(x)) THEN RoundToEven(x, e, round, sticky)
  ELSE Normal(BigHalve(x, 1), e + 1, BigOdd(x), sticky \/ round)

\* The double of a natural below 2^15: n * 2^45 * 2^-45.
ToDouble(n) == Normal(<<0, 0, 0, n, 0>>, 0 - 45, FALSE, FALSE)

\* One step of long division on <<quotient, rest>>: the rest is doubled and
\* the next quotient bit is 1 when y fits into it.
QuotientBit(qr, r2, y) ==
  IF BigLess(r2, y, Len(y)) THEN <<BigScale(qr[1], 2, 1, 0), r2>>
  ELSE <<BigScale(qr[1], 2, 1, 1), BigSub(r2, y, 1, 0)>>

\* n steps of long division, the first half of them and then the rest.
RECURSIVE QuotientBits(_, _, _)
QuotientBits(qr, y, n) ==
  IF n = 0 THEN qr
  ELSE IF n = 1 THEN QuotientBit(qr, BigScale(qr[2], 2, 1, 0), y)
  ELSE CHOOSE d \in {QuotientBits(half, y, n - n \div 2) :
                       half \in {QuotientBits(qr, y, n \div 2)}} : TRUE

\* The double nearest to the quotient, whose 55 bits are in qr[1]; what is
\* left of the rest is the sticky bit.
Quotient(qr, e) == Normal(qr[1], e, FALSE, qr[2] # BigOf(0))

\* x / y of two doubles: the first quotient bit is the integer part.
DoubleDiv(x, y) ==
  IF BigLess(x.m, y.m, Len(y.m))
  THEN Quotient(QuotientBits(<<BigOf(0), x.m>>, y.m, 55), x.e - y.e - 55)
  ELSE Quotient(QuotientBits(<<BigOf(1), BigSub(x.m, y.m, 1, 0)>>, y.m, 54),
                x.e - y.e - 54)

\* n / 2 * x for a small natural n > 0 and a double x.
DoubleMulHalves(n, x) == Normal(BigScale(x.m, n, 1, 0), x.e - 1, FALSE, FALSE)

\* x < 1 for a double x.
DoubleBelowOne(x) == x.e < 0 - 52

\* <<floor(x / 2^n), the last bit dropped>> for xh = <<x, a bit>>.
RECURSIVE DropBits(_, _)
DropBits(xh, n) ==
  IF n = 0 THEN xh
  ELSE IF n = 1 THEN <<BigHalve(xh[1], 1), xh[1][1] % 2>>
  ELSE CHOOSE d \in {DropBits(half, n - n \div 2) :
                       half \in {DropBits(xh, n \div 2)}} : TRUE

\* floor(x) and one more when the fraction is a half or more, from
\* <<floor(x), the first bit of the fraction>>.
RoundHalfUp(xh) == BigToInt(xh[1]) + xh[2]

\* Math.round of a double below 2^30.
MathRound(x) == RoundHalfUp(DropBits(<<x.m, 0>>, 0 - x.e))

----------------------------------------------------------------------------
(* Construction. *)

\* A planner that never replaces the ratio by its reciprocal.
getResolutionNoInvert(w, h, halves) ==
  LET product == DoubleMulHalves(halves, DoubleDiv(ToDouble(w), ToDouble(h)))
  IN IF w > h THEN [width |-> MathRound(product),
                    height |-> RoundDiv(halves, 2)]
              ELSE [width |-> RoundDiv(halves, 2),
                    height |-> MathRound(product)]

\* A planner that returns the two dimensions the other way round.
getResolutionSwapped(w, h, halves) ==
  LET ratio       == DoubleDiv(ToDouble(w), ToDouble(h))
      aspectRatio == IF DoubleBelowOne(ratio) THEN DoubleDiv(ToDouble(1), ratio)
                     ELSE ratio
      product     == DoubleMulHalves(halves, aspectRatio)
  IN IF w > h THEN [width |-> RoundDiv(halves, 2), height |-> MathRound(product)]
              ELSE [width |-> MathRound(product), height |-> RoundDiv(halves, 2)]

\* getResolution(resolution) for a canvas of w x h pixels and a resolution
\* of halves / 2: the ratio is w / h, replaced by 1 / ratio when below 1.
getResolutionOf(w, h, halves) ==
  LET ratio       == DoubleDiv(ToDouble(w), ToDouble(h))
      aspectRatio == IF DoubleBelowOne(ratio) THEN DoubleDiv(ToDouble(1), ratio)
                     ELSE ratio
      product     == DoubleMulHalves(halves, aspectRatio)
      min         == RoundDiv(halves, 2)
      max         == MathRound(product)
  IN IF w > h THEN [width |-> max, height |-> min]
              ELSE [width |-> min, height |-> max]

\* getResolution(resolution) for a whole resolution.
getResolution(w, h, resolution) == getResolutionOf(w, h, 2 * resolution)

\* A double FBO whose two roles name one buffer.
createDoubleFBOOneBuffer(w, h, fbo1, fbo2) ==
  [width |-> w, height |-> h,
   texelSizeX |-> FP \div w, texelSizeY |-> FP \div h,
   read |-> fbo1, write |-> fbo1]

\* createDoubleFBO(w, h): two grids and the read/write accessors.
createDoubleFBO(w, h, fbo1, fbo2) ==
  [width |-> w, height |-> h,
   texelSizeX |-> FP \div w, texelSizeY |-> FP \div h,
   read |-> fbo1, write |-> fbo2]

\* A constructor that creates the dye grids at the sim resolution.
FluidSimulationOneResolution(width, height, config, now) ==
  LET simRes == getResolution(width, height, config.SIM_RESOLUTION)
  IN [width      |-> width,
      height     |-> height,
      config     |-> config,
      simWidth   |-> simRes.width,
      simHeight  |-> simRes.height,
      dyeWidth   |-> simRes.width,
      dyeHeight  |-> simRes.height,
      density    |-> createDoubleFBO(simRes.width, simRes.height, "d1", "d2"),
      velocity   |-> createDoubleFBO(simRes.width, simRes.height, "v1", "v2"),
      pressure   |-> createDoubleFBO(simRes.width, simRes.height, "p1", "p2"),
      divergence |-> "div",
      curl       |-> "curl",
      lastTime   |-> now]

\* new FluidSimulation(gl, width, height, config) at clock reading now.
FluidSimulation(width, height, config, now) ==
  LET simRes == getResolution(width, height, config.SIM_RESOLUTION)
      dyeRes == getResolution(width, height, config.DYE_RESOLUTION)
  IN [width      |-> width,
      height     |-> height,
      config     |-> config,
      simWidth   |-> simRes.width,
      simHeight  |-> simRes.height,
      dyeWidth   |-> dyeRes.width,
      dyeHeight  |-> dyeRes.height,
      density    |-> createDoubleFBO(dyeRes.width, dyeRes.height, "d1", "d2"),
      velocity   |-> createDoubleFBO(simRes.width, simRes.height, "v1", "v2"),
      pressure   |-> createDoubleFBO(simRes.width, simRes.height, "p1", "p2"),
      divergence |-> "div",
      curl       |-> "curl",
      lastTime   |-> now]

\* The size createFBO gave each texture, and the canvas for the screen.
GridSize(S, b) ==
  CASE b \in {"d1", "d2"} -> <<S.dyeWidth, S.dyeHeight>>
    [] b = Screen -> <<S.width, S.height>>
    [] b = "none" -> <<1, 1>>
    [] OTHER -> <<S.simWidth, S.simHeight>>

\* createFBO(w, h, internalFormat, format): a cleared texture.
createFBO(version, S, b) ==
  ClearedGrid(version, b, GridSize(S, b)[1], GridSize(S, b)[2])

\* The extensions initFluidSimulation asks for.
Extensions == {"EXT_color_buffer_float", "OES_texture_float_linear"}

\* The context state left by construction: no program in use, every uniform
\* zero, the last created texture (curl) bound to unit 0 by createFBO, every
\* texture cleared.  A unit with no texture samples as <<0, 0, 0, 1>>.  Here
\* every extension was enabled and every program linked.
initGL(version, S) ==
  [version     |-> version,
   extensions  |-> Extensions,
   linked      |-> Programs,
   program     |-> "none",
   uniforms    |-> createPrograms,
   active      |-> 0,
   units       |-> [u \in {0, 1} |-> IF u = 0 THEN "curl" ELSE "none"],
   framebuffer |-> "curl",
   feedback    |-> FALSE,
   tex         |-> [d1     |-> createFBO(version, S, "d1"),
                    d2     |-> createFBO(version, S, "d2"),
                    v1     |-> createFBO(version, S, "v1"),
                    v2     |-> createFBO(version, S, "v2"),
                    p1     |-> createFBO(version, S, "p1"),
                    p2     |-> createFBO(version, S, "p2"),
                    div    |-> createFBO(version, S, "div"),
                    curl   |-> createFBO(version, S, "curl"),
                    screen |-> createFBO(version, S, Screen),
                    none   |-> [width |-> 1, height |-> 1, data |-> <<<<0, 0, 0, FP>>>>]]]

----------------------------------------------------------------------------
(* GL calls, as functions of the machine M = [sim, gl, draws]. *)

\* gl.useProgram(p): a program that did not link raises INVALID_OPERATION and
\* the program in use stays.
useProgram(M, p) == IF p \in M.gl.linked THEN [M EXCEPT !.gl.program = p] ELSE M

\* gl.uniform*(location, v): sets a uniform of the program in use; a location
\* of another program or of no active uniform changes nothing.
uniform(M, p, name, v) ==
  IF M.gl.program = p /\ name \in DOMAIN M.gl.uniforms[p]
  THEN [M EXCEPT !.gl.uniforms[p][name] = v]
  ELSE M

\* fbo.attach(id): activeTexture(TEXTURE0 + id); bindTexture(texture).
attach(M, fbo, id) ==
  [M EXCEPT !.gl.active = id, !.gl.units[id] = fbo]

\* The texture each sampler of the program in use reads at a draw.
Sampled(M) ==
  LET p == M.gl.program
  IN [s \in Samplers[p] |-> M.gl.units[M.gl.uniforms[p][s]]]

----------------------------------------------------------------------------
(* The shaders.  U is the uniform record of the program in use, T(s) the   *)
(* texture bound to the unit sampler s names, vUv the fragment's position. *)

Uniforms(M) == M.gl.uniforms[M.gl.program]

Bound(M, s) == M.gl.tex[M.gl.units[Uniforms(M)[s]]]

\* The varyings of the shared vertex shader at the fragment vUv.
vL(M, vUv) == <<vUv[1] - Uniforms(M).texelSize[1], vUv[2]>>

vR(M, vUv) == <<vUv[1] + Uniforms(M).texelSize[1], vUv[2]>>

vT(M, vUv) == <<vUv[1], vUv[2] + Uniforms(M).texelSize[2]>>

vB(M, vUv) == <<vUv[1], vUv[2] - Uniforms(M).texelSize[2]>>

\* GLSL vector arithmetic, component by component.
xy(v) == <<v[1], v[2]>>

vec4(v, z, w) == <<v[1], v[2], z, w>>

Add2(a, b) == <<a[1] + b[1], a[2] + b[2]>>

Sub2(a, b) == <<a[1] - b[1], a[2] - b[2]>>

Mul2(a, b) == <<Mul(a[1], b[1]), Mul(a[2], b[2])>>

Scale2(s, a) == <<Mul(s, a[1]), Mul(s, a[2])>>

Scale4(s, a) == <<Mul(s, a[1]), Mul(s, a[2]), Mul(s, a[3]), Mul(s, a[4])>>

dot(a, b) == Mul(a[1], b[1]) + Mul(a[2], b[2])

length(a) == Sqrt(dot(a, a))

\* p.x *= aspectRatio
ScaleX(p, s) == <<Mul(p[1], s), p[2]>>

\* exp(-dot(p, p) / radius)
Gaussian(p, radius) == ExpNeg(Div(dot(p, p), radius))

\* exp(-dot(p, p) / radius) at the fragment, p.x scaled by the aspect ratio.
Falloff(vUv, point, aspectRatio, radius) ==
  Gaussian(ScaleX(Sub2(vUv, point), aspectRatio), radius)

\* vec4(base + splat, 1.0) with splat = w * color
AddSplat(base, w, color) ==
  <<base[1] + Mul(w, color[1]), base[2] + Mul(w, color[2]),
    base[3] + Mul(w, color[3]), FP>>

splatShader(M, vUv) ==
  LET U == Uniforms(M)
  IN AddSplat(texture2D(Bound(M, "uTarget"), vUv),
              Falloff(vUv, U.point, U.aspectRatio, U.radius), U.color)

\* An advection shader that leaves the dissipation out.
advectionShaderNoDissipation(M, vUv) ==
  LET U     == Uniforms(M)
      coord == Sub2(vUv, Mul2(Scale2(U.dt, xy(texture2D(Bound(M, "uVelocity"), vUv))),
                              U.texelSize))
  IN texture2D(Bound(M, "uSource"), coord)

advectionShader(M, vUv) ==
  LET U     == Uniforms(M)
      coord == Sub2(vUv, Mul2(Scale2(U.dt, xy(texture2D(Bound(M, "uVelocity"), vUv))),
                              U.texelSize))
  IN Scale4(U.dissipation, texture2D(Bound(M, "uSource"), coord))

divergenceShader(M, vUv) ==
  LET L == texture2D(Bound(M, "uVelocity"), vL(M, vUv))[1]
      R == texture2D(Bound(M, "uVelocity"), vR(M, vUv))[1]
      T == texture2D(Bound(M, "uVelocity"), vT(M, vUv))[2]
      B == texture2D(Bound(M, "uVelocity"), vB(M, vUv))[2]
  IN <<Mul(FP \div 2, R - L + T - B), 0, 0, FP>>

curlShader(M, vUv) ==
  LET L == texture2D(Bound(M, "uVelocity"), vL(M, vUv))[2]
      R == texture2D(Bound(M, "uVelocity"), vR(M, vUv))[2]
      T == texture2D(Bound(M, "uVelocity"), vT(M, vUv))[1]
      B == texture2D(Bound(M, "uVelocity"), vB(M, vUv))[1]
  IN <<Mul(FP \div 2, R - L - T + B), 0, 0, FP>>

DivScalar(a, s) == <<Div(a[1], s), Div(a[2], s)>>

\* force /= length(force) + 0.0001
Unit(force) == DivScalar(force, length(force) + 100)

\* force.y *= -1.0
FlipY(force) == <<force[1], 0 - force[2]>>

\* A confinement that pushes with the curl strength whatever the curl field
\* holds.
ConfinementUniformForce(L, R, T, B, C, curl) ==
  FlipY(Scale2(curl, <<FP, FP>>))

\* The confinement force from the curl around the fragment and at it.
Confinement(L, R, T, B, C, curl) ==
  FlipY(Scale2(Mul(curl, C),
               Unit(Scale2(FP \div 2, <<Abs(T) - Abs(B), Abs(R) - Abs(L)>>))))

vorticityShader(M, vUv) ==
  LET U   == Uniforms(M)
      L   == texture2D(Bound(M, "uCurl"), vL(M, vUv))[1]
      R   == texture2D(Bound(M, "uCurl"), vR(M, vUv))[1]
      T   == texture2D(Bound(M, "uCurl"), vT(M, vUv))[1]
      B   == texture2D(Bound(M, "uCurl"), vB(M, vUv))[1]
      C   == texture2D(Bound(M, "uCurl"), vUv)[1]
      vel == xy(texture2D(Bound(M, "uVelocity"), vUv))
  IN vec4(Add2(vel, Scale2(U.dt, Confinement(L, R, T, B, C, U.curl))), 0, FP)

pressureShader(M, vUv) ==
  LET L == texture2D(Bound(M, "uPressure"), vL(M, vUv))[1]
      R == texture2D(Bound(M, "uPressure"), vR(M, vUv))[1]
      T == texture2D(Bound(M, "uPressure"), vT(M, vUv))[1]
      B == texture2D(Bound(M, "uPressure"), vB(M, vUv))[1]
      divergence == texture2D(Bound(M, "uDivergence"), vUv)[1]
  IN <<Mul(L + R + B + T - divergence, FP \div 4), 0, 0, FP>>

gradientSubtractShader(M, vUv) ==
  LET L == texture2D(Bound(M, "uPressure"), vL(M, vUv))[1]
      R == texture2D(Bound(M, "uPressure"), vR(M, vUv))[1]
      T == texture2D(Bound(M, "uPressure"), vT(M, vUv))[1]
      B == texture2D(Bound(M, "uPressure"), vB(M, vUv))[1]
      velocity == xy(texture2D(Bound(M, "uVelocity"), vUv))
  IN vec4(Sub2(velocity, <<R - L, T - B>>), 0, FP)

\* vec4(c, a) with a = max(c.r, max(c.g, c.b))
WithAlpha(c) == <<c[1], c[2], c[3], Max(c[1], Max(c[2], c[3]))>>

displayShader(M, vUv) == WithAlpha(texture2D(Bound(M, "uTexture"), vUv))

\* A clear shader that writes the value itself.
clearShaderWritesValue(M, vUv) ==
  <<Uniforms(M).value, Uniforms(M).value, Uniforms(M).value, Uniforms(M).value>>

clearShader(M, vUv) ==
  Scale4(Uniforms(M).value, texture2D(Bound(M, "uTexture"), vUv))

\* The fragment colour of the program in use.
Fragment(M, vUv) ==
  CASE M.gl.program = "splat"            -> splatShader(M, vUv)
    [] M.gl.program = "advection"        -> advectionShader(M, vUv)
    [] M.gl.program = "divergence"       -> divergenceShader(M, vUv)
    [] M.gl.program = "curl"             -> curlShader(M, vUv)
    [] M.gl.program = "vorticity"        -> vorticityShader(M, vUv)
    [] M.gl.program = "pressure"         -> pressureShader(M, vUv)
    [] M.gl.program = "gradientSubtract" -> gradientSubtractShader(M, vUv)
    [] M.gl.program = "display"          -> displayShader(M, vUv)
    [] M.gl.program = "clear"            -> clearShader(M, vUv)

\* vUv at the centre of cell <<i, j>> of a w x h viewport.
FragCoord(i, j, w, h) ==
  <<((2 * i + 1) * FP) \div (2 * w), ((2 * j + 1) * FP) \div (2 * h)>>

\* The first n fragments of the viewport of the destination, row by row.
RECURSIVE Fragments(_, _, _, _, _)
Fragments(M, destination, w, h, n) ==
  IF n = 0 THEN <<>>
  ELSE Append(Fragments(M, destination, w, h, n - 1),
              Store(M.gl.version, destination,
                    Fragment(M, FragCoord((n - 1) % w, (n - 1) \div w, w, h))))

\* gl.drawElements over the whole viewport of the destination.
Render(M, destination) ==
  LET g == M.gl.tex[destination]
  IN [width |-> g.width, height |-> g.height,
      data |-> Fragments(M, destination, g.width, g.height, g.width * g.height)]

\* The framebuffer of the destination is complete: the canvas and 8-bit
\* textures always, a half-float texture when EXT_color_buffer_float is on.
Complete(M, destination) ==
  \/ destination = Screen
  \/ M.gl.version # "webgl2"
  \/ "EXT_color_buffer_float" \in M.gl.extensions

\* blit(destination): bind the destination framebuffer and draw the quad.
\* gl.drawElements draws nothing with no program in use (INVALID_OPERATION)
\* or into an incomplete framebuffer (INVALID_FRAMEBUFFER_OPERATION).
blit(M, destination) ==
  IF M.gl.program = "none" \/ ~Complete(M, destination)
  THEN [M EXCEPT !.gl.framebuffer = destination]
  ELSE
  LET p  == M.gl.program
      sm == Sampled(M)
      d  == [program  |-> p,
             target   |-> destination,
             samplers |-> sm,
             uniforms |-> M.gl.uniforms[p],
             roles    |-> [f \in Fields |-> [read  |-> M.sim[f].read,
                                             write |-> M.sim[f].write]]]
  IN [M EXCEPT !.gl.framebuffer = destination,
               !.gl.feedback = @ \/ (destination \in {sm[s] : s \in DOMAIN sm}),
               !.gl.tex[destination] = Render(M, destination),
               !.draws = Append(@, d)]

\* swap() that copies write into read without exchanging.
swapLosesRead(M, field) ==
  [M EXCEPT !.sim[field].read = M.sim[field].write]

\* field.swap(): exchange the read and write grids of a double FBO.
swap(M, field) ==
  [M EXCEPT !.sim[field].read = M.sim[field].write,
            !.sim[field].write = M.sim[field].read]

----------------------------------------------------------------------------
(* splat(x, y, dx, dy, r, g, b, radius). *)

\* splat velocity pass that forgets the swap.
splatVelocityNoSwap(M, x, y, dx, dy, radius) ==
  LET m1 == useProgram(M, "splat")
      m2 == uniform(attach(m1, M.sim.velocity.read, 0), "splat", "uTarget", 0)
      m3 == uniform(m2, "splat", "aspectRatio", (M.sim.width * FP) \div M.sim.height)
      m4 == uniform(m3, "splat", "point", <<x, FP - y>>)
      m5 == uniform(m4, "splat", "color", <<dx, -dy, 0>>)
      m6 == uniform(m5, "splat", "radius", radius \div 100)
  IN blit(m6, M.sim.velocity.write)

\* splat velocity pass that does not flip the point vertically.
splatVelocityNoFlip(M, x, y, dx, dy, radius) ==
  LET m1 == useProgram(M, "splat")
      m2 == uniform(attach(m1, M.sim.velocity.read, 0), "splat", "uTarget", 0)
      m3 == uniform(m2, "splat", "aspectRatio", (M.sim.width * FP) \div M.sim.height)
      m4 == uniform(m3, "splat", "point", <<x, y>>)
      m5 == uniform(m4, "splat", "color", <<dx, -dy, 0>>)
      m6 == uniform(m5, "splat", "radius", radius \div 100)
      m7 == blit(m6, M.sim.velocity.write)
  IN swap(m7, "velocity")

splatVelocity(M, x, y, dx, dy, radius) ==
  LET m1 == useProgram(M, "splat")
      m2 == uniform(attach(m1, M.sim.velocity.read, 0), "splat", "uTarget", 0)
      m3 == uniform(m2, "splat", "aspectRatio", (M.sim.width * FP) \div M.sim.height)
      m4 == uniform(m3, "splat", "point", <<x, FP - y>>)
      m5 == uniform(m4, "splat", "color", <<dx, -dy, 0>>)
      m6 == uniform(m5, "splat", "radius", radius \div 100)
      m7 == blit(m6, M.sim.velocity.write)
  IN swap(m7, "velocity")

\* splat dye pass that also touches the pressure field.
splatDensityAlsoPressure(M, r, g, b) ==
  LET m1 == uniform(attach(M, M.sim.density.read, 0), "splat", "uTarget", 0)
      m2 == uniform(m1, "splat", "color", <<r, g, b>>)
      m3 == blit(m2, M.sim.density.write)
  IN swap(swap(m3, "density"), "pressure")

\* splat dye pass that binds its own, undivided radius.
splatDensityOwnRadius(M, r, g, b, radius) ==
  LET m1 == uniform(attach(M, M.sim.density.read, 0), "splat", "uTarget", 0)
      m2 == uniform(m1, "splat", "color", <<r, g, b>>)
      m3 == uniform(m2, "splat", "radius", radius)
      m4 == blit(m3, M.sim.density.write)
  IN swap(m4, "density")

splatDensity(M, r, g, b) ==
  LET m1 == uniform(attach(M, M.sim.density.read, 0), "splat", "uTarget", 0)
      m2 == uniform(m1, "splat", "color", <<r, g, b>>)
      m3 == blit(m2, M.sim.density.write)
  IN swap(m3, "density")

\* splat() whose dye pass rebinds the radius without the division.
splatTwoRadii(M, x, y, dx, dy, r, g, b, radius) ==
  splatDensityOwnRadius(splatVelocity(M, x, y, dx, dy, radius), r, g, b, radius)

splat(M, x, y, dx, dy, r, g, b, radius) ==
  splatDensity(splatVelocity(M, x, y, dx, dy, radius), r, g, b)

----------------------------------------------------------------------------
(* update(): one simulation step. *)

\* Math.min(dt, 0.016666)
DT_CAP == 16666

\* The time step without the cap.
clampDtNoCap(now, lastTime) == (now - lastTime) \div 1000

\* The time step with the two readings exchanged.
clampDtReversed(now, lastTime) == Min((lastTime - now) \div 1000, DT_CAP)

\* dt = (now - this.lastTime) / 1000; dt = Math.min(dt, 0.016666)
clampDt(now, lastTime) == Min((now - lastTime) \div 1000, DT_CAP)

velocityTexel(M) == <<M.sim.velocity.texelSizeX, M.sim.velocity.texelSizeY>>

densityTexel(M) == <<M.sim.density.texelSizeX, M.sim.density.texelSizeY>>

\* Step 1: curl of the velocity field.
updateCurl(M) ==
  LET m1 == useProgram(M, "curl")
      m2 == uniform(m1, "curl", "texelSize", velocityTexel(M))
      m3 == uniform(attach(m2, M.sim.velocity.read, 0), "curl", "uVelocity", 0)
  IN blit(m3, M.sim.curl)

\* Step 2: vorticity confinement.
updateVorticity(M, dt) ==
  LET m1 == useProgram(M, "vorticity")
      m2 == uniform(m1, "vorticity", "texelSize", velocityTexel(M))
      m3 == uniform(attach(m2, M.sim.velocity.read, 0), "vorticity", "uVelocity", 0)
      m4 == uniform(attach(m3, M.sim.curl, 1), "vorticity", "uCurl", 1)
      m5 == uniform(m4, "vorticity", "curl", M.sim.config.CURL)
      m6 == uniform(m5, "vorticity", "dt", dt)
      m7 == blit(m6, M.sim.velocity.write)
  IN swap(m7, "velocity")

\* Step 3: divergence of the velocity field.
updateDivergence(M) ==
  LET m1 == useProgram(M, "divergence")
      m2 == uniform(m1, "divergence", "texelSize", velocityTexel(M))
      m3 == uniform(attach(m2, M.sim.velocity.read, 0), "divergence", "uVelocity", 0)
  IN blit(m3, M.sim.divergence)

\* The decay the clear pass applies to the previous pressure: 0.8.
PRESSURE_DECAY == 800000

\* Step 4: fade the pressure of the previous frame.
updateClear(M) ==
  LET m1 == useProgram(M, "clear")
      m2 == uniform(attach(m1, M.sim.pressure.read, 0), "clear", "uTexture", 0)
      m3 == uniform(m2, "clear", "value", PRESSURE_DECAY)
      m4 == blit(m3, M.sim.pressure.write)
  IN swap(m4, "pressure")

\* A loop body that swaps the pressure grids twice.
jacobiSwapsTwice(M) ==
  LET m1 == uniform(attach(M, M.sim.pressure.read, 1), "pressure", "uPressure", 1)
      m2 == blit(m1, M.sim.pressure.write)
  IN swap(swap(m2, "pressure"), "pressure")

\* One iteration of the Jacobi loop body.
jacobi(M) ==
  LET m1 == uniform(attach(M, M.sim.pressure.read, 1), "pressure", "uPressure", 1)
      m2 == blit(m1, M.sim.pressure.write)
  IN swap(m2, "pressure")

\* Jacobi loop with an off-by-one bound.
RECURSIVE jacobiLoopOffByOne(_, _)
jacobiLoopOffByOne(M, i) ==
  IF i <= M.sim.config.PRESSURE_ITERATIONS THEN jacobiLoopOffByOne(jacobi(M), i + 1) ELSE M

\* for (let i = 0; i < PRESSURE_ITERATIONS; i++) { ... }
RECURSIVE jacobiLoop(_, _)
jacobiLoop(M, i) ==
  IF i < M.sim.config.PRESSURE_ITERATIONS THEN jacobiLoop(jacobi(M), i + 1) ELSE M

\* Step 5: pressure solve.
updatePressure(M) ==
  LET m1 == useProgram(M, "pressure")
      m2 == uniform(m1, "pressure", "texelSize", velocityTexel(M))
      m3 == uniform(attach(m2, M.sim.divergence, 0), "pressure", "uDivergence", 0)
  IN jacobiLoop(m3, 0)

\* Gradient subtraction that samples the pressure write grid.
updateGradientSubtractStale(M) ==
  LET m1 == useProgram(M, "gradientSubtract")
      m2 == uniform(m1, "gradientSubtract", "texelSize", velocityTexel(M))
      m3 == uniform(attach(m2, M.sim.pressure.write, 0), "gradientSubtract", "uPressure", 0)
      m4 == uniform(attach(m3, M.sim.velocity.read, 1), "gradientSubtract", "uVelocity", 1)
      m5 == blit(m4, M.sim.velocity.write)
  IN swap(m5, "velocity")

\* Step 6: subtract the pressure gradient.
updateGradientSubtract(M) ==
  LET m1 == useProgram(M, "gradientSubtract")
      m2 == uniform(m1, "gradientSubtract", "texelSize", velocityTexel(M))
      m3 == uniform(attach(m2, M.sim.pressure.read, 0), "gradientSubtract", "uPressure", 0)
      m4 == uniform(attach(m3, M.sim.velocity.read, 1), "gradientSubtract", "uVelocity", 1)
      m5 == blit(m4, M.sim.velocity.write)
  IN swap(m5, "velocity")

\* Self-advection that renders into the grid it samples.
updateAdvectVelocityInPlace(M, dt) ==
  LET m1 == useProgram(M, "advection")
      m2 == uniform(m1, "advection", "texelSize", velocityTexel(M))
      m3 == uniform(attach(m2, M.sim.velocity.read, 0), "advection", "uVelocity", 0)
      m4 == uniform(attach(m3, M.sim.velocity.read, 0), "advection", "uSource", 0)
      m5 == uniform(m4, "advection", "dt", dt)
      m6 == uniform(m5, "advection", "dissipation", M.sim.config.VELOCITY_DISSIPATION)
      m7 == blit(m6, M.sim.velocity.read)
  IN swap(m7, "velocity")

\* Step 7: advect the velocity by itself.
updateAdvectVelocity(M, dt) ==
  LET m1 == useProgram(M, "advection")
      m2 == uniform(m1, "advection", "texelSize", velocityTexel(M))
      m3 == uniform(attach(m2, M.sim.velocity.read, 0), "advection", "uVelocity", 0)
      m4 == uniform(attach(m3, M.sim.velocity.read, 0), "advection", "uSource", 0)
      m5 == uniform(m4, "advection", "dt", dt)
      m6 == uniform(m5, "advection", "dissipation", M.sim.config.VELOCITY_DISSIPATION)
      m7 == blit(m6, M.sim.velocity.write)
  IN swap(m7, "velocity")

\* Dye advection that binds no dissipation of its own.
updateAdvectDensityKeepsDissipation(M) ==
  LET m1 == uniform(M, "advection", "texelSize", densityTexel(M))
      m2 == uniform(attach(m1, M.sim.velocity.read, 0), "advection", "uVelocity", 0)
      m3 == uniform(attach(m2, M.sim.density.read, 1), "advection", "uSource", 1)
      m4 == blit(m3, M.sim.density.write)
  IN swap(m4, "density")

\* Dye advection that keeps the velocity grid's texel size.
updateAdvectDensityVelocityTexel(M) ==
  LET m1 == uniform(M, "advection", "texelSize", velocityTexel(M))
      m2 == uniform(attach(m1, M.sim.velocity.read, 0), "advection", "uVelocity", 0)
      m3 == uniform(attach(m2, M.sim.density.read, 1), "advection", "uSource", 1)
      m4 == uniform(m3, "advection", "dissipation", M.sim.config.DENSITY_DISSIPATION)
      m5 == blit(m4, M.sim.density.write)
  IN swap(m5, "density")

\* Step 8: advect the dye along the velocity field.
updateAdvectDensity(M) ==
  LET m1 == uniform(M, "advection", "texelSize", densityTexel(M))
      m2 == uniform(attach(m1, M.sim.velocity.read, 0), "advection", "uVelocity", 0)
      m3 == uniform(attach(m2, M.sim.density.read, 1), "advection", "uSource", 1)
      m4 == uniform(m3, "advection", "dissipation", M.sim.config.DENSITY_DISSIPATION)
      m5 == blit(m4, M.sim.density.write)
  IN swap(m5, "density")

\* Step 9: display composite to the canvas.
updateDisplay(M) ==
  LET m1 == useProgram(M, "display")
      m2 == uniform(attach(m1, M.sim.density.read, 0), "display", "uTexture", 0)
  IN blit(m2, Screen)

\* Statement k of update() after the clock reading.
updateStep(M, dt, k) ==
  CASE k = 1 -> updateCurl(M)
    [] k = 2 -> updateVorticity(M, dt)
    [] k = 3 -> updateDivergence(M)
    [] k = 4 -> updateClear(M)
    [] k = 5 -> updatePressure(M)
    [] k = 6 -> updateGradientSubtract(M)
    [] k = 7 -> updateAdvectVelocity(M, dt)
    [] k = 8 -> updateAdvectDensity(M)
    [] k = 9 -> updateDisplay(M)

\* The statements of update() run in order: statement k runs on the machine
\* m the statements before it have left.
Then(m, dt, k) ==
  IF m.gl.program \in Programs \cup {"none"} THEN updateStep(m, dt, k) ELSE m

\* The first k statements of update().
RECURSIVE updateSteps(_, _, _)
updateSteps(M, dt, k) ==
  IF k = 0 THEN M ELSE Then(updateSteps(M, dt, k - 1), dt, k)

update(M, now) ==
  updateSteps([M EXCEPT !.sim.lastTime = now], clampDt(now, M.sim.lastTime), 9)

----------------
(* The caller: one thread that constructs the engine, lets time pass and   *)
(* calls splat() and update() in any order.                                *)

Versions == {"webgl2", "webgl"}

CanvasSizes == {<<2, 2>>, <<4, 2>>}

Configs ==
  [SIM_RESOLUTION : {2}, DYE_RESOLUTION : {2},
   DENSITY_DISSIPATION : {970000}, VELOCITY_DISSIPATION : {980000},
   PRESSURE_ITERATIONS : 0 .. MaxIterations, CURL : {30 * FP},
   SPLAT_RADIUS : {250000}, SPLAT_FORCE : {1000 * FP}]

StartTimes == {1000000}

\* The splat() argument tuples <<x, y, dx, dy, r, g, b, radius>> the caller uses.
SplatArgs ==
  {<<250000, 250000, FP, 0, FP, 0, 0, 25 * FP>>,
   <<750000, 250000, 2 * FP, FP, 0, FP \div 2, FP, 250000>>,
   <<250000, 750000, 0, -FP, FP, FP, 0, 50 * FP>>}

\* The time between two readings of performance.now(), in milliseconds.
Elapsed == {0, 5000000, 30000000}

NoCall == [op |-> "none", args |-> <<>>, now |-> 0, dt |-> 0]

\* The host's globals after setup() got an engine: fluidSim, showFluid, the
\* number of frames drawn, and what construction saw (the context kind and
\* the values the config held).
HostWithEngine(version, config) ==
  [context |-> version, fluidSim |-> "engine", showFluid |-> TRUE,
   frames |-> 0, config0 |-> config]

Init ==
  \E v \in Versions, c \in CanvasSizes, cfg \in Configs, t \in StartTimes :
    /\ sim = FluidSimulation(c[1], c[2], cfg, t)
    /\ gl = initGL(v, FluidSimulation(c[1], c[2], cfg, t))
    /\ draws = <<>>
    /\ prev = [call |-> NoCall, draws |-> <<>>, sim |-> FluidSimulation(c[1], c[2], cfg, t)]
    /\ lastCall = NoCall
    /\ calls = 0
    /\ host = HostWithEngine(v, cfg)

Splat ==
  /\ calls < MaxCalls
  /\ \E a \in SplatArgs :
       \E M \in {splat([sim |-> sim, gl |-> gl, draws |-> <<>>],
                       a[1], a[2], a[3], a[4], a[5], a[6], a[7], a[8])} :
         /\ sim' = M.sim
         /\ gl' = M.gl
         /\ draws' = M.draws
         /\ prev' = [call |-> lastCall, draws |-> draws, sim |-> sim]
         /\ lastCall' = [op |-> "splat", args |-> a, now |-> sim.lastTime, dt |-> 0]
         /\ calls' = calls + 1
         /\ UNCHANGED host

Update ==
  /\ calls < MaxCalls
  /\ \E now \in {sim.lastTime + d : d \in Elapsed} :
       \E M \in {update([sim |-> sim, gl |-> gl, draws |-> <<>>], now)} :
         /\ sim' = M.sim
         /\ gl' = M.gl
         /\ draws' = M.draws
         /\ prev' = [call |-> lastCall, draws |-> draws, sim |-> sim]
         /\ lastCall' = [op |-> "update", args |-> <<>>, now |-> now,
                         dt |-> clampDt(now, sim.lastTime)]
         /\ calls' = calls + 1
         /\ UNCHANGED host

Next == Splat \/ Update

Spec == Init /\ [][Next]_vars

----------------------------------------------------------------------------
(* The host page: setup() asks for an engine once, draw() runs every frame *)
(* and the F key toggles the fluid.  The browser decides which contexts    *)
(* exist, which extensions they have and which programs compile and link.  *)

Browsers ==
  {[contexts |-> {"webgl2", "webgl"}, extensions |-> Extensions, broken |-> {}],
   [contexts |-> {}, extensions |-> {}, broken |-> {}],
   [contexts |-> {"webgl"}, extensions |-> {}, broken |-> {}],
   [contexts |-> {"webgl2", "webgl"}, extensions |-> {}, broken |-> {}],
   [contexts |-> {"webgl2", "webgl"}, extensions |-> Extensions, broken |-> {"curl"}],
   [contexts |-> {"webgl"}, extensions |-> {}, broken |-> {"advection", "display"}]}

\* The configs a caller passes: the first is within the documented ranges,
\* the others have a dissipation above 1 and a negative iteration count.
HostConfigs ==
  {[SIM_RESOLUTION |-> 2, DYE_RESOLUTION |-> 2,
    DENSITY_DISSIPATION |-> 970000, VELOCITY_DISSIPATION |-> 980000,
    PRESSURE_ITERATIONS |-> 1, CURL |-> 30 * FP,
    SPLAT_RADIUS |-> 250000, SPLAT_FORCE |-> 1000 * FP],
   [SIM_RESOLUTION |-> 2, DYE_RESOLUTION |-> 2,
    DENSITY_DISSIPATION |-> 1500000, VELOCITY_DISSIPATION |-> 980000,
    PRESSURE_ITERATIONS |-> 1, CURL |-> 30 * FP,
    SPLAT_RADIUS |-> 250000, SPLAT_FORCE |-> 1000 * FP],
   [SIM_RESOLUTION |-> 2, DYE_RESOLUTION |-> 2,
    DENSITY_DISSIPATION |-> 970000, VELOCITY_DISSIPATION |-> 980000,
    PRESSURE_ITERATIONS |-> -1, CURL |-> 30 * FP,
    SPLAT_RADIUS |-> 250000, SPLAT_FORCE |-> 1000 * FP]}

\* getContext('webgl2') and, when that is null, getContext('webgl').
getContext(contexts) ==
  IF "webgl2" \in contexts THEN "webgl2"
  ELSE IF "webgl" \in contexts THEN "webgl" ELSE "none"

\* The return value null.
null == [ok |-> FALSE]

\* What sim and gl hold while no engine and no context exist.
NoEngine == [width |-> 0, height |-> 0]

NoContext == [version |-> "none"]

\* The context and the engine new FluidSimulation(gl, width, height, config)
\* leaves: the extensions the browser has are on, the programs the browser
\* rejects are not linked.
construct(browser, version, width, height, config, now) ==
  [ok  |-> TRUE,
   gl  |-> [initGL(version, FluidSimulation(width, height, config, now))
              EXCEPT !.extensions = browser.extensions \cap Extensions,
                     !.linked = Programs \ browser.broken],
   sim |-> FluidSimulation(width, height, config, now)]

\* initFluidSimulation without the test of the context.
initFluidSimulationNoNullCheck(browser, width, height, config, now) ==
  construct(browser, getContext(browser.contexts), width, height, config, now)

\* initFluidSimulation(width, height, config) in a browser, at clock reading now.
initFluidSimulation(browser, width, height, config, now) ==
  IF getContext(browser.contexts) = "none" THEN null
  ELSE construct(browser, getContext(browser.contexts), width, height, config, now)

\* setup(): fluidSim is the engine of a non-null result and stays null otherwise.
setup(fluidInit, browser, config) ==
  [context |-> getContext(browser.contexts),
   fluidSim |-> IF fluidInit.ok THEN "engine" ELSE "null",
   showFluid |-> TRUE, frames |-> 0, config0 |-> config]

HostInit ==
  \E b \in Browsers, cfg \in HostConfigs, t \in StartTimes :
    \E fluidInit \in {initFluidSimulation(b, 2, 2, cfg, t)} :
      /\ sim = IF fluidInit.ok THEN fluidInit.sim ELSE NoEngine
      /\ gl = IF fluidInit.ok THEN fluidInit.gl ELSE NoContext
      /\ draws = <<>>
      /\ prev = [call |-> NoCall, draws |-> <<>>,
                 sim |-> IF fluidInit.ok THEN fluidInit.sim ELSE NoEngine]
      /\ lastCall = NoCall
      /\ calls = 0
      /\ host = setup(fluidInit, b, cfg)

\* The splat() calls injectBodySplats makes in one frame: none, or one.
FrameSplats == {<<>>, <<<<250000, 250000, FP, 0, FP, 0, 0, 25 * FP>>>>}

\* The time between two frames, in milliseconds.
FrameGaps == {5000000, 30000000}

\* injectBodySplats(poses, dtSec): one splat() per tracked point.
RECURSIVE injectBodySplats(_, _, _)
injectBodySplats(M, splats, k) ==
  IF k = 0 THEN M
  ELSE splat([injectBodySplats(M, splats, k - 1) EXCEPT !.draws = <<>>],
             splats[k][1], splats[k][2], splats[k][3], splats[k][4],
             splats[k][5], splats[k][6], splats[k][7], splats[k][8])

\* The last call before the update() of a frame.
CallBeforeUpdate(splats, now) ==
  IF splats = <<>> THEN lastCall
  ELSE [op |-> "splat", args |-> splats[Len(splats)], now |-> now, dt |-> 0]

\* draw(): if (showFluid && fluidSim) { injectBodySplats(); fluidSim.update() }
Frame ==
  /\ host.frames < MaxFrames
  /\ host' = [host EXCEPT !.frames = @ + 1]
  /\ IF host.showFluid /\ host.fluidSim = "engine"
     THEN \E splats \in FrameSplats, now \in {sim.lastTime + d : d \in FrameGaps} :
            \E S \in {injectBodySplats([sim |-> sim, gl |-> gl, draws |-> <<>>],
                                       splats, Len(splats))} :
              \E M \in {update([S EXCEPT !.draws = <<>>], now)} :
                /\ sim' = M.sim
                /\ gl' = M.gl
                /\ draws' = M.draws
                /\ prev' = [call |-> CallBeforeUpdate(splats, sim.lastTime),
                            draws |-> S.draws, sim |-> S.sim]
                /\ lastCall' = [op |-> "update", args |-> <<>>, now |-> now,
                                dt |-> clampDt(now, sim.lastTime)]
                /\ calls' = calls + Len(splats) + 1
     ELSE UNCHANGED <<sim, gl, draws, prev, lastCall, calls>>

\* keyPressed(): F toggles showFluid.
KeyF ==
  /\ host' = [host EXCEPT !.showFluid = ~@]
  /\ UNCHANGED <<sim, gl, draws, prev, lastCall, calls>>

HostNext == Frame \/ KeyF

HostSpec == HostInit /\ [][HostNext]_vars

----------------------------------------------------------------------------
(* The draw() loops of the host pages.  Three variants differ in the test  *)
(* around the fluid step: the plain one runs it when showFluid && fluidSim,*)
(* the gated one only when a person is detected as well, the guarded one   *)
(* wraps it in try/catch.  The state keeps the calls of the last frame and *)
(* the pixels last copied from the fluid canvas.                           *)

HostVariants == {"plain", "gated", "guarded"}

\* A browser with WebGL and one without.
DrawBrowsers ==
  {[contexts |-> {"webgl2", "webgl"}, extensions |-> Extensions, broken |-> {}],
   [contexts |-> {}, extensions |-> {}, broken |-> {}]}

\* Where a runtime exception leaves the try block: nowhere, in
\* injectBodySplats before its first splat, in update() after four passes,
\* or in drawImage.
ThrowPoints == {"none", "injectBodySplats", "update", "drawImage"}

\* setup() of a variant: only the guarded one clears showFluid when
\* initFluidSimulation returned null.
setupVariant(variant, fluidInit, browser, config) ==
  [variant |-> variant,
   context |-> getContext(browser.contexts),
   fluidSim |-> IF fluidInit.ok THEN "engine" ELSE "null",
   showFluid |-> fluidInit.ok \/ variant # "guarded",
   frames |-> 0, config0 |-> config,
   log |-> <<>>, scene |-> <<>>, latched |-> FALSE]

DrawInit ==
  \E variant \in HostVariants, b \in DrawBrowsers, t \in StartTimes :
    \E cfg \in {c \in Configs : c.PRESSURE_ITERATIONS = 1} :
      \E fluidInit \in {initFluidSimulation(b, 2, 2, cfg, t)} :
        /\ sim = IF fluidInit.ok THEN fluidInit.sim ELSE NoEngine
        /\ gl = IF fluidInit.ok THEN fluidInit.gl ELSE NoContext
        /\ draws = <<>>
        /\ prev = [call |-> NoCall, draws |-> <<>>,
                   sim |-> IF fluidInit.ok THEN fluidInit.sim ELSE NoEngine]
        /\ lastCall = NoCall
        /\ calls = 0
        /\ host = setupVariant(variant, fluidInit, b, cfg)

\* The splat() calls of one frame: body points and, in the gated variant,
\* hand points; none while no pose is tracked.
DrawSplats(variant, person, body, hand) ==
  IF ~person THEN <<>>
  ELSE IF variant = "gated" THEN body \o hand ELSE body

\* A test that forgets showFluid.
FluidStepIgnoresShowFluid(h, person) ==
  /\ h.fluidSim = "engine"
  /\ h.variant = "gated" => person

\* The test around the fluid step.
FluidStep(h, person) ==
  /\ h.showFluid
  /\ h.fluidSim = "engine"
  /\ h.variant = "gated" => person

\* fluidSim.update() that runs k of its nine passes (all nine unless an
\* exception ends it).
updateThrowing(M, now, k) ==
  updateSteps([M EXCEPT !.sim.lastTime = now], clampDt(now, M.sim.lastTime), k)

\* The calls the try block made: the splats done, update() unless the
\* exception came before it, drawImage unless it came before that.
RECURSIVE SplatCalls(_)
SplatCalls(n) == IF n = 0 THEN <<>> ELSE Append(SplatCalls(n - 1), "splat")

CallLog(splats, throwAt) ==
  IF throwAt = "injectBodySplats" THEN <<>>
  ELSE IF throwAt = "update" THEN Append(SplatCalls(Len(splats)), "update")
  ELSE SplatCalls(Len(splats)) \o <<"update", "drawImage">>

\* A catch block that forgets to drop the engine.
catchKeepsEngine(h) == [h EXCEPT !.showFluid = FALSE, !.latched = TRUE]

\* catch (err) { showFluid = false; fluidSim = null; }
catch(h) == [h EXCEPT !.showFluid = FALSE, !.fluidSim = "null", !.latched = TRUE]

\* The host after the frame: the log, the scene when drawImage completed,
\* and the catch block when something was thrown.
AfterFrame(h, log, screen, throwAt) ==
  IF throwAt = "none" THEN [h EXCEPT !.frames = @ + 1, !.log = log, !.scene = screen]
  ELSE catch([h EXCEPT !.frames = @ + 1, !.log = log])

\* draw(), one frame.
Draw ==
  /\ host.frames < MaxFrames
  /\ \E person \in BOOLEAN, body \in FrameSplats, hand \in FrameSplats,
        throwAt \in ThrowPoints, now \in {IF host.fluidSim = "engine" THEN sim.lastTime + 5000000 ELSE 0} :
       /\ person \/ (body = <<>> /\ hand = <<>>)
       /\ host.variant = "gated" \/ hand = <<>>
       /\ (host.variant = "guarded" /\ FluidStep(host, person)) \/ throwAt = "none"
       /\ lastCall' = [op |-> "draw", args |-> <<>>, now |-> now, dt |-> 0,
                       person |-> person, showFluid |-> host.showFluid,
                       fluidSim |-> host.fluidSim, threw |-> throwAt # "none"]
       /\ IF FluidStep(host, person)
          THEN \E S \in {IF throwAt = "injectBodySplats"
                          THEN [sim |-> sim, gl |-> gl, draws |-> <<>>]
                          ELSE injectBodySplats([sim |-> sim, gl |-> gl, draws |-> <<>>],
                                                DrawSplats(host.variant, person, body, hand),
                                                Len(DrawSplats(host.variant, person, body, hand)))} :
                 \E M \in {IF throwAt = "injectBodySplats" THEN S
                            ELSE updateThrowing([S EXCEPT !.draws = <<>>], now,
                                                IF throwAt = "update" THEN 4 ELSE 9)} :
                   /\ sim' = M.sim
                   /\ gl' = M.gl
                   /\ draws' = M.draws
                   /\ prev' = [call |-> lastCall, draws |-> S.draws, sim |-> S.sim]
                   /\ calls' = calls + Len(CallLog(DrawSplats(host.variant, person, body, hand), throwAt))
                   /\ host' = AfterFrame(host, CallLog(DrawSplats(host.variant, person, body, hand), throwAt),
                                         M.gl.tex[Screen], throwAt)
          ELSE /\ host' = [host EXCEPT !.frames = @ + 1, !.log = <<>>]
               /\ UNCHANGED <<sim, gl, draws, prev, calls>>

\* keyPressed(): F toggles showFluid.
KeyPressed ==
  /\ lastCall.op # "keyPressed"
  /\ host' = [host EXCEPT !.showFluid = ~@]
  /\ lastCall' = [op |-> "keyPressed", args |-> <<"F">>, now |-> 0, dt |-> 0]
  /\ UNCHANGED <<sim, gl, draws, prev, calls>>

DrawNext == Draw \/ KeyPressed

DrawSpec == DrawInit /\ [][DrawNext]_vars

----------------------------------------------------------------------------
(* Two engines on one page: initFluidSimulation is called twice, and the   *)
(* caller interleaves splat() and update() on the two results.  sim maps   *)
(* an engine to its object, gl maps a canvas to the state of its context,  *)
(* and host keeps what initFluidSimulation returned, the clock, and for    *)
(* each engine a copy that receives its calls on a page of its own.        *)

Engines == {"A", "B"}

\* document.createElement('canvas'), the k-th time: a new canvas.
createElementReusesCanvas(k) == 1

createElement(k) == k

\* The k-th initFluidSimulation(width, height, config) of the page.
initFluidSimulationOnPage(k, version, width, height, config, now) ==
  [canvas |-> createElement(k),
   gl     |-> initGL(version, FluidSimulation(width, height, config, now)),
   sim    |-> FluidSimulation(width, height, config, now)]

\* The splat() arguments and the frame gaps of the two-engine caller.
PageSplatArgs ==
  {<<250000, 250000, FP, 0, FP, 0, 0, 25 * FP>>,
   <<750000, 250000, 2 * FP, FP, 0, FP \div 2, FP, 250000>>}

PageGaps == {5000000, 30000000}

\* The context state of each canvas: a later getContext on the same canvas
\* and the construction that follows leave their state in it.
PageContexts(a, b) ==
  [c \in {a.canvas, b.canvas} |-> IF c = b.canvas THEN b.gl ELSE a.gl]

PageInit ==
  \E v \in Versions, t \in StartTimes :
    \E a \in {initFluidSimulationOnPage(1, v, 2, 2,
                 [SIM_RESOLUTION |-> 2, DYE_RESOLUTION |-> 2,
                  DENSITY_DISSIPATION |-> 970000, VELOCITY_DISSIPATION |-> 980000,
                  PRESSURE_ITERATIONS |-> 1, CURL |-> 30 * FP,
                  SPLAT_RADIUS |-> 250000, SPLAT_FORCE |-> 1000 * FP], t)},
       b \in {initFluidSimulationOnPage(2, v, 4, 2,
                 [SIM_RESOLUTION |-> 2, DYE_RESOLUTION |-> 2,
                  DENSITY_DISSIPATION |-> 950000, VELOCITY_DISSIPATION |-> 900000,
                  PRESSURE_ITERATIONS |-> 0, CURL |-> 10 * FP,
                  SPLAT_RADIUS |-> 250000, SPLAT_FORCE |-> 1000 * FP], t)} :
      /\ sim = [A |-> a.sim, B |-> b.sim]
      /\ gl = PageContexts(a, b)
      /\ draws = <<>>
      /\ prev = [call |-> NoCall, draws |-> <<>>, sim |-> [A |-> a.sim, B |-> b.sim],
                 gl |-> PageContexts(a, b)]
      /\ lastCall = NoCall
      /\ calls = 0
      /\ host = [fluidInit |-> [A |-> [canvas |-> a.canvas], B |-> [canvas |-> b.canvas]],
                 now |-> t,
                 alone |-> [A |-> [sim |-> a.sim, gl |-> a.gl],
                            B |-> [sim |-> b.sim, gl |-> b.gl]]]

\* What a call on engine e works on: the engine object and its context.
EngineMachine(e) ==
  [sim |-> sim[e], gl |-> gl[host.fluidInit[e].canvas], draws |-> <<>>]

\* The copy of engine e on a page of its own.
AloneMachine(e) ==
  [sim |-> host.alone[e].sim, gl |-> host.alone[e].gl, draws |-> <<>>]

\* The page after a call on engine e left the machine M, and its copy L.
Called(e, M, L, call, now) ==
  /\ sim' = [sim EXCEPT ![e] = M.sim]
  /\ gl' = [gl EXCEPT ![host.fluidInit[e].canvas] = M.gl]
  /\ draws' = M.draws
  /\ prev' = [call |-> lastCall, draws |-> draws, sim |-> sim, gl |-> gl]
  /\ lastCall' = call
  /\ calls' = calls + 1
  /\ host' = [host EXCEPT !.now = now, !.alone[e] = [sim |-> L.sim, gl |-> L.gl]]

\* The same call on each of the first k machines of a list.
RECURSIVE splatEach(_, _, _)
splatEach(machines, a, k) ==
  IF k = 0 THEN <<>>
  ELSE Append(splatEach(machines, a, k - 1),
              splat(machines[k], a[1], a[2], a[3], a[4], a[5], a[6], a[7], a[8]))

RECURSIVE updateEach(_, _, _)
updateEach(machines, now, k) ==
  IF k = 0 THEN <<>>
  ELSE Append(updateEach(machines, now, k - 1), update(machines[k], now))

PageSplat ==
  /\ calls < MaxCalls
  /\ \E e \in Engines, a \in PageSplatArgs :
       \E ML \in {splatEach(<<EngineMachine(e), AloneMachine(e)>>, a, 2)} :
         Called(e, ML[1], ML[2], [op |-> "splat", args |-> a, now |-> host.now, dt |-> 0,
                                  engine |-> e], host.now)

PageUpdate ==
  /\ calls < MaxCalls
  /\ \E e \in Engines, now \in {host.now + d : d \in PageGaps} :
       \E ML \in {updateEach(<<EngineMachine(e), AloneMachine(e)>>, now, 2)} :
         Called(e, ML[1], ML[2], [op |-> "update", args |-> <<>>, now |-> now,
                                  dt |-> clampDt(now, sim[e].lastTime), engine |-> e], now)

PageNext == PageSplat \/ PageUpdate

PageSpec == PageInit /\ [][PageNext]_vars

----------------------------------------------------------------------------
(* Teardown: a caller that may also call destroy().                        *)

\* destroy(): the body reads this.gl and does nothing else.
destroy(M) == M

TeardownInit ==
  \E cfg \in {c \in Configs : c.PRESSURE_ITERATIONS = 1}, t \in StartTimes :
    /\ sim = FluidSimulation(2, 2, cfg, t)
    /\ gl = initGL("webgl2", FluidSimulation(2, 2, cfg, t))
    /\ draws = <<>>
    /\ prev = [call |-> NoCall, draws |-> <<>>, sim |-> FluidSimulation(2, 2, cfg, t)]
    /\ lastCall = NoCall
    /\ calls = 0
    /\ host = HostWithEngine("webgl2", cfg)

Destroy ==
  /\ calls < MaxCalls
  /\ \E M \in {destroy([sim |-> sim, gl |-> gl, draws |-> <<>>])} :
       /\ sim' = M.sim
       /\ gl' = M.gl
       /\ draws' = M.draws
       /\ prev' = [call |-> lastCall, draws |-> draws, sim |-> sim]
       /\ lastCall' = [op |-> "destroy", args |-> <<>>, now |-> sim.lastTime, dt |-> 0]
       /\ calls' = calls + 1
       /\ UNCHANGED host

TeardownNext == Splat \/ Update \/ Destroy

TeardownSpec == TeardownInit /\ [][TeardownNext]_vars

----------------------------------------------------------------------------
(* The resolution planner alone: an object with a width and a height, and  *)
(* getResolution called on it with any resolution.                         *)

\* The resolutions asked for, in halves: 0.5, 1, 1.5, ..., 5.
PlanHalves == 1 .. 10

PlanInit ==
  \E w \in 1 .. MaxSide, h \in 1 .. MaxSide :
    /\ sim = [width |-> w, height |-> h]
    /\ gl = NoContext
    /\ draws = <<>>
    /\ prev = [call |-> NoCall, draws |-> <<>>, sim |-> [width |-> w, height |-> h]]
    /\ lastCall = NoCall
    /\ calls = 0
    /\ host = [context |-> "none", fluidSim |-> "null", showFluid |-> FALSE,
               frames |-> 0, config0 |-> <<>>]

\* this.getResolution(halves / 2), once on each object: the object is left
\* as it was, the state keeps the call and what it returned.
GetResolution ==
  /\ calls = 0
  /\ calls' = 1
  /\ \E halves \in PlanHalves :
       \E result \in {getResolutionOf(sim.width, sim.height, halves)} :
         lastCall' = [op |-> "getResolution", args |-> <<halves>>, now |-> 0, dt |-> 0,
                      result |-> result]
  /\ UNCHANGED <<sim, gl, draws, prev, host>>

PlanNext == GetResolution

PlanSpec == PlanInit /\ [][PlanNext]_vars

----------------------------------------------------------------------------
(* A caller that keeps the config object it passed to the constructor and  *)
(* assigns to its properties between calls: this.config is that object.    *)

\* The values the caller's config object takes.
LiveConfigs ==
  {[SIM_RESOLUTION |-> 2, DYE_RESOLUTION |-> 3,
    DENSITY_DISSIPATION |-> 970000, VELOCITY_DISSIPATION |-> 980000,
    PRESSURE_ITERATIONS |-> 1, CURL |-> 30 * FP,
    SPLAT_RADIUS |-> 250000, SPLAT_FORCE |-> 1000 * FP],
   [SIM_RESOLUTION |-> 3, DYE_RESOLUTION |-> 2,
    DENSITY_DISSIPATION |-> 950000, VELOCITY_DISSIPATION |-> 900000,
    PRESSURE_ITERATIONS |-> 2, CURL |-> 10 * FP,
    SPLAT_RADIUS |-> 250000, SPLAT_FORCE |-> 1000 * FP]}

ConfigInit ==
  \E cfg \in LiveConfigs, t \in StartTimes :
    /\ sim = FluidSimulation(2, 2, cfg, t)
    /\ gl = initGL("webgl2", FluidSimulation(2, 2, cfg, t))
    /\ draws = <<>>
    /\ prev = [call |-> NoCall, draws |-> <<>>, sim |-> FluidSimulation(2, 2, cfg, t)]
    /\ lastCall = NoCall
    /\ calls = 0
    /\ host = HostWithEngine("webgl2", cfg)

\* The caller assigns new values to the properties of its config object.
SetConfig ==
  /\ calls < MaxCalls
  /\ \E cfg \in LiveConfigs \ {sim.config} :
       /\ sim' = [sim EXCEPT !.config = cfg]
       /\ prev' = [call |-> lastCall, draws |-> draws, sim |-> sim]
       /\ lastCall' = [op |-> "setConfig", args |-> <<>>, now |-> sim.lastTime, dt |-> 0]
       /\ calls' = calls + 1
       /\ UNCHANGED <<gl, draws, host>>

ConfigNext == Splat \/ Update \/ SetConfig

ConfigSpec == ConfigInit /\ [][ConfigNext]_vars

----------------------------------------------------------------------------
(* Observations on the draw log of the last call. *)

Range(f) == {f[k] : k \in DOMAIN f}

\* The field a grid belongs to.
FieldOf(b) ==
  CASE b \in {"v1", "v2"} -> "velocity"
    [] b \in {"d1", "d2"} -> "density"
    [] b \in {"p1", "p2"} -> "pressure"
    [] OTHER -> b

Iterations == sim.config.PRESSURE_ITERATIONS

\* The elapsed time, in seconds, the last update() call saw.
ElapsedSeconds == (lastCall.now - prev.sim.lastTime) \div 1000

\* The draws of this call before draw i that rendered into a grid of field f.
WritersBefore(i, f) == {j \in 1 .. (i - 1) : FieldOf(draws[j].target) = f}

LastWriterBefore(i, f) ==
  CHOOSE j \in WritersBefore(i, f) : \A k \in WritersBefore(i, f) : k <= j

----------------------------------------------------------------------------
(* C1 *)

\* C1: in every full-grid pass of splat() and update() the render destination
\* is none of the grids the pass samples; a pass that renders into a grid of
\* velocity, dye or pressure renders into the field's write grid, samples of
\* a double-buffered field come from its read grid, and read and write are
\* different grids at the draw.
C1_NoReadWriteSameGrid ==
  /\ ~gl.feedback
  /\ \A i \in 1 .. Len(draws) :
       LET d == draws[i]
       IN /\ d.target \notin Range(d.samplers)
          /\ \A f \in Fields :
               /\ d.roles[f].read # d.roles[f].write
               /\ FieldOf(d.target) = f => d.target = d.roles[f].write
               /\ \A b \in Range(d.samplers) :
                    FieldOf(b) = f => b = d.roles[f].read

C1_Witness ==
  /\ lastCall.op = "update"
  /\ prev.call.op = "splat"
  /\ Len(draws) = 10
  /\ draws[8].target = sim.velocity.read
  /\ draws[8].samplers.uSource = sim.velocity.write

----------------------------------------------------------------------------
(* C2 *)

PressurePasses(n) == [k \in 1 .. n |-> "pressure"]

\* The program of every draw of the last call, in order.
ProgramsDrawn == [k \in 1 .. Len(draws) |-> draws[k].program]

\* The field or grid every draw of the last call rendered into, in order.
TargetsDrawn == [k \in 1 .. Len(draws) |-> FieldOf(draws[k].target)]

\* C2: one update() draws curl, vorticity, divergence, clear, N Jacobi passes,
\* gradient subtraction, velocity advection, dye advection and display, in
\* this order and nothing else, whatever the elapsed time is.
C2_PipelineOrder ==
  lastCall.op = "update" =>
    /\ ProgramsDrawn = <<"curl", "vorticity", "divergence", "clear">>
                        \o PressurePasses(Iterations)
                        \o <<"gradientSubtract", "advection", "advection", "display">>
    /\ TargetsDrawn = <<"curl", "velocity", "div", "pressure">>
                       \o PressurePasses(Iterations)
                       \o <<"velocity", "velocity", "density", Screen>>
    /\ sim.lastTime = lastCall.now

C2_Witness ==
  /\ lastCall.op = "update"
  /\ Iterations = 2
  /\ ElapsedSeconds = 30000
  /\ Len(draws) = 10

----------------------------------------------------------------------------
(* C3 *)

\* C3: within one update() every pass samples, for each field it reads, the
\* grid most recently rendered for that field: gradient subtraction reads the
\* velocity of the vorticity pass and the pressure of the last Jacobi pass,
\* self-advection the velocity of gradient subtraction, dye advection the
\* velocity of self-advection, display the dye of dye advection.
C3_StageSeesPreviousStage ==
  lastCall.op = "update" =>
    LET n == Iterations
    IN /\ Len(draws) = n + 8
       /\ \A i \in 1 .. Len(draws) : \A b \in Range(draws[i].samplers) :
            WritersBefore(i, FieldOf(b)) # {} =>
              b = draws[LastWriterBefore(i, FieldOf(b))].target
       /\ draws[n + 5].samplers.uVelocity = draws[2].target
       /\ draws[n + 5].samplers.uPressure = draws[n + 4].target
       /\ n > 0 => draws[n + 4].program = "pressure"
       /\ draws[n + 6].samplers.uVelocity = draws[n + 5].target
       /\ draws[n + 6].samplers.uSource = draws[n + 5].target
       /\ draws[n + 7].samplers.uVelocity = draws[n + 6].target
       /\ draws[n + 8].samplers.uTexture = draws[n + 7].target

C3_Witness ==
  /\ lastCall.op = "update"
  /\ Iterations = 1
  /\ draws[6].program = "gradientSubtract"
  /\ draws[6].samplers.uPressure = draws[5].target
  /\ draws[5].program = "pressure"

----------------------------------------------------------------------------
(* C4 *)

\* C4: a splat() is visible to the call that follows it: the next update()
\* computes curl from the velocity grid the splat rendered and advects the
\* dye grid the splat rendered, and a following splat() adds to the grids the
\* earlier splat rendered, so any number of splats reach the next update().
C4_SplatVisibleToNextCall ==
  prev.call.op = "splat" =>
    /\ lastCall.op = "update" =>
         /\ draws[1].program = "curl"
         /\ draws[1].samplers.uVelocity = prev.draws[1].target
         /\ draws[Len(draws) - 1].program = "advection"
         /\ draws[Len(draws) - 1].samplers.uSource = prev.draws[2].target
    /\ lastCall.op = "splat" =>
         /\ draws[1].samplers.uTarget = prev.draws[1].target
         /\ draws[2].samplers.uTarget = prev.draws[2].target

C4_Witness ==
  /\ calls = 3
  /\ lastCall.op = "update"
  /\ prev.call.op = "splat"
  /\ prev.draws[1].target = "v1"
  /\ prev.draws[2].target = "d1"
  /\ draws[1].samplers.uVelocity = "v1"

----------------------------------------------------------------------------
(* C5 *)

Machine == [sim |-> sim, gl |-> gl, draws |-> draws]

\* C5: on every double-buffered field two swap() calls restore read and write,
\* and one swap() exchanges them and changes nothing else: no grid is created
\* or copied.
C5_SwapIsInvolution ==
  \A f \in Fields :
    LET once  == swap(Machine, f)
        twice == swap(once, f)
    IN /\ twice = Machine
       /\ once.sim[f].read = sim[f].write
       /\ once.sim[f].write = sim[f].read
       /\ once.sim[f].read # once.sim[f].write
       /\ once.gl = gl
       /\ \A g \in Fields \ {f} : once.sim[g] = sim[g]

C5_Witness ==
  /\ sim.velocity.read = "v2"
  /\ sim.density.read = "d2"
  /\ sim.pressure.read = "p2"

----------------------------------------------------------------------------
(* C6 *)

\* C6: one splat() draws exactly twice, first into velocity.write and then
\* into density.write, swaps each field right after its draw, and leaves
\* pressure, divergence, curl and lastTime as they were.
C6_SplatFrame ==
  lastCall.op = "splat" =>
    /\ Len(draws) = 2
    /\ draws[1].program = "splat" /\ draws[2].program = "splat"
    /\ draws[1].target = prev.sim.velocity.write
    /\ draws[2].target = prev.sim.density.write
    /\ draws[1].roles = [f \in Fields |-> [read  |-> prev.sim[f].read,
                                            write |-> prev.sim[f].write]]
    /\ draws[2].roles.velocity = [read  |-> prev.sim.velocity.write,
                                  write |-> prev.sim.velocity.read]
    /\ draws[2].roles.density = draws[1].roles.density
    /\ sim.velocity.read = draws[1].target
    /\ sim.velocity.write = prev.sim.velocity.read
    /\ sim.density.read = draws[2].target
    /\ sim.density.write = prev.sim.density.read
    /\ sim.pressure = prev.sim.pressure
    /\ sim.divergence = prev.sim.divergence
    /\ sim.curl = prev.sim.curl
    /\ sim.lastTime = prev.sim.lastTime

C6_Witness ==
  /\ lastCall.op = "splat"
  /\ prev.call.op = "update"
  /\ sim.pressure.read = "p2"
  /\ sim.lastTime > 1000000

----------------------------------------------------------------------------
(* C7 *)

\* What pass d of a splat() adds to channel c of cell <<i, j>>: the falloff
\* at the cell's centre times the bound colour.
Contribution(d, i, j, c) ==
  Mul(Falloff(FragCoord(i, j, gl.tex[d.target].width, gl.tex[d.target].height),
              d.uniforms.point, d.uniforms.aspectRatio, d.uniforms.radius),
      d.uniforms.color[c])

\* The rounding a stored value v may carry: ten significant bits of it and
\* half a level of an 8-bit channel.
Rounding(v) == (Abs(v) \div 1024) + 2000

\* The channels a splat pass is about: x and y of velocity, r, g and b of dye.
SplatChannels(k) == IF k = 1 THEN {1, 2} ELSE {1, 2, 3}

\* Pass k of the last splat() left in every cell of the grid it rendered,
\* now the field's read grid, the value the cell had before plus the cell's
\* contribution, up to rounding.
AdditivePass(k) ==
  LET d   == draws[k]
      new == gl.tex[d.target]
      old == gl.tex[d.samplers.uTarget]
  IN \A i \in 0 .. (new.width - 1), j \in 0 .. (new.height - 1), c \in SplatChannels(k) :
       Abs(Texel(new, i, j)[c] - (Texel(old, i, j)[c] + Contribution(d, i, j, c)))
         <= Rounding(Texel(old, i, j)[c] + Contribution(d, i, j, c))

\* C7: after a splat() every cell of the velocity read grid holds its value
\* before the splat plus the cell's falloff-weighted velocity contribution,
\* and every cell of the dye read grid likewise, so repeated splats accumulate
\* and never overwrite.
C7_SplatAdditive ==
  lastCall.op = "splat" =>
    /\ draws[1].target = sim.velocity.read
    /\ draws[1].samplers.uTarget = sim.velocity.write
    /\ draws[2].target = sim.density.read
    /\ draws[2].samplers.uTarget = sim.density.write
    /\ AdditivePass(1)
    /\ AdditivePass(2)

----------------------------------------------------------------------------
(* C8 *)

\* C8 as stated: splat(x, y, dx, dy, r, g, b, radius) binds the velocity
\* delta (dx, dy) at the point (x, 1 - y) and the colour (r, g, b) at the same
\* point.
C8_Original ==
  lastCall.op = "splat" =>
    LET a == lastCall.args
    IN /\ draws[1].uniforms.point = <<a[1], FP - a[2]>>
       /\ draws[1].uniforms.color = <<a[3], a[4], 0>>
       /\ draws[2].uniforms.point = <<a[1], FP - a[2]>>
       /\ draws[2].uniforms.color = <<a[5], a[6], a[7]>>

\* C8: splat(x, y, dx, dy, r, g, b, radius) binds the velocity delta (dx, -dy),
\* the vertical component negated, at the point (x, 1 - y) for the velocity
\* pass, and the colour (r, g, b) at the same point for the dye pass.
C8_SplatPointAndValue ==
  lastCall.op = "splat" =>
    LET a == lastCall.args
    IN /\ draws[1].target \in {"v1", "v2"}
       /\ draws[1].uniforms.point = <<a[1], FP - a[2]>>
       /\ draws[1].uniforms.color = <<a[3], 0 - a[4], 0>>
       /\ draws[2].target \in {"d1", "d2"}
       /\ draws[2].uniforms.point = <<a[1], FP - a[2]>>
       /\ draws[2].uniforms.color = <<a[5], a[6], a[7]>>

C8_Witness ==
  /\ lastCall.op = "splat"
  /\ lastCall.args[4] = FP
  /\ lastCall.args[2] = 250000
  /\ draws[1].uniforms.color[2] = -FP
  /\ draws[2].uniforms.point[2] = 750000

----------------------------------------------------------------------------
(* C9 *)

\* C9 as stated: the radius uniform of both passes of splat() equals the
\* radius argument.
C9_Original ==
  lastCall.op = "splat" =>
    /\ draws[1].uniforms.radius = lastCall.args[8]
    /\ draws[2].uniforms.radius = lastCall.args[8]

\* C9: the radius uniform of both passes of splat() is the radius argument
\* divided by 100, the same value for the velocity pass and the dye pass.
C9_SplatRadius ==
  lastCall.op = "splat" =>
    /\ 100 * draws[1].uniforms.radius = lastCall.args[8]
    /\ draws[2].uniforms.radius = draws[1].uniforms.radius

C9_Witness ==
  /\ lastCall.op = "splat"
  /\ prev.call.op = "splat"
  /\ lastCall.args[8] = 250000
  /\ prev.call.args[8] = 25 * FP
  /\ draws[2].uniforms.radius = 2500

----------------------------------------------------------------------------
(* C10 *)

\* The dt uniform of the passes of the last update() that take one.
StepsUsed ==
  {draws[i].uniforms.dt : i \in {j \in 1 .. Len(draws) :
                                   draws[j].program \in {"vorticity", "advection"}}}

\* C10 as stated: the step is min(elapsed, 1/60 s).
C10_Original ==
  lastCall.op = "update" =>
    \A dt \in StepsUsed : 60 * dt = Min(60 * ElapsedSeconds, FP)

\* C10: the step of every update() is min(elapsed, 0.016666 s), elapsed being
\* the time since the previous update() or since construction; when elapsed
\* exceeds 0.016666 s the step is exactly 0.016666 s.
C10_StepIsClamped ==
  lastCall.op = "update" =>
    /\ StepsUsed = {IF ElapsedSeconds > 16666 THEN 16666 ELSE ElapsedSeconds}
    /\ lastCall.dt \in StepsUsed

C10_Witness ==
  /\ lastCall.op = "update"
  /\ prev.call.op = "update"
  /\ ElapsedSeconds = 30000
  /\ StepsUsed = {16666}
  /\ prev.call.dt = 5000

----------------------------------------------------------------------------
(* C11 *)

----------------------------------------------------------------------------
(* C12 *)

\* The read and write grids of the pressure field, exchanged.
Exchanged(r) == [read |-> r.write, write |-> r.read]

\* The read and write grids of the pressure field of an engine.
PressureGrids(S) == [read |-> S.pressure.read, write |-> S.pressure.write]

\* The sampler through which a pass reads the previous pressure.
PressureSampler(d) == IF d.program = "clear" THEN d.samplers.uTexture
                                             ELSE d.samplers.uPressure

\* C12: one update() draws the pressure program exactly PRESSURE_ITERATIONS
\* times, as draws 5 .. 4 + N; the clear pass and every Jacobi iteration
\* sample pressure.read and render into pressure.write, the pressure grids are
\* exchanged once after each of these N + 1 draws and at no other point, and
\* the call returns.
C12_JacobiIterations ==
  lastCall.op = "update" =>
    LET n == Iterations
    IN /\ {i \in 1 .. Len(draws) : draws[i].program = "pressure"} = 5 .. (4 + n)
       /\ draws[4].program = "clear"
       /\ \A i \in 1 .. 4 : draws[i].roles.pressure = PressureGrids(prev.sim)
       /\ \A i \in 4 .. (4 + n) :
            /\ draws[i].target = draws[i].roles.pressure.write
            /\ PressureSampler(draws[i]) = draws[i].roles.pressure.read
            /\ draws[i + 1].roles.pressure = Exchanged(draws[i].roles.pressure)
       /\ \A i \in (5 + n) .. Len(draws) :
            draws[i].roles.pressure = PressureGrids(sim)
       /\ PressureGrids(sim) = IF n % 2 = 0 THEN Exchanged(PressureGrids(prev.sim))
                                            ELSE PressureGrids(prev.sim)

C12_Witness ==
  /\ lastCall.op = "update"
  /\ Iterations = 2
  /\ draws[5].program = "pressure"
  /\ draws[6].program = "pressure"
  /\ draws[6].target = draws[5].samplers.uPressure
  /\ PressureGrids(sim) = Exchanged(PressureGrids(prev.sim))

----------------------------------------------------------------------------
(* C13 *)

\* The x and y channels of every cell of a grid.
VelocityOf(g) == [k \in 1 .. Len(g.data) |-> <<g.data[k][1], g.data[k][2]>>]

\* Every cell of both pressure grids holds the pressure 0.
PressureIsZero ==
  \A b \in {"p1", "p2"} : \A k \in 1 .. Len(gl.tex[b].data) : gl.tex[b].data[k][1] = 0

\* Gradient subtraction, run on the machine m the first five steps of an
\* update() have left, renders the velocity it sampled.
SubtractsNothing(m) ==
  LET after == updateStep(m, DT_CAP, 6)
  IN /\ after.draws[Len(after.draws)].program = "gradientSubtract"
     /\ after.draws[Len(after.draws)].samplers.uVelocity = m.sim.velocity.read
     /\ after.draws[Len(after.draws)].target = after.sim.velocity.read
     /\ VelocityOf(after.gl.tex[after.sim.velocity.read])
          = VelocityOf(m.gl.tex[m.sim.velocity.read])

\* C13: with PRESSURE_ITERATIONS = 0, after any calls of splat() and update()
\* on a new engine the pressure is zero in every cell, and the gradient
\* subtraction of the next update() renders the velocity it sampled.
C13_NoPressureCorrection ==
  Iterations = 0 =>
    /\ PressureIsZero
    /\ SubtractsNothing(updateSteps(Machine, DT_CAP, 5))

C13_Witness ==
  /\ Iterations = 0
  /\ calls = 3
  /\ lastCall.op = "update"
  /\ prev.call.op = "splat"
  /\ Len(draws) = 8
  /\ draws[5].program = "gradientSubtract"
  /\ \E k \in 1 .. Len(gl.tex[sim.velocity.read].data) :
       gl.tex[sim.velocity.read].data[k][1] # 0

----------------------------------------------------------------------------
(* C14 *)

\* C14: when the browser gives neither a webgl2 nor a webgl context,
\* initFluidSimulation returns null and constructs nothing, the host keeps
\* fluidSim null, and no frame calls splat() or update().
C14_NoContextNoEngine ==
  host.context = "none" =>
    /\ host.fluidSim = "null"
    /\ sim = NoEngine
    /\ gl = NoContext
    /\ calls = 0
    /\ draws = <<>>
    /\ lastCall = NoCall

C14_Witness ==
  /\ host.context = "none"
  /\ host.fluidSim = "null"
  /\ host.showFluid
  /\ host.frames = 2
  /\ calls = 0

----------------------------------------------------------------------------
(* C15 *)

\* C15: when a context is obtained but the float-texture extensions cannot be
\* enabled, construction fails and the host has no engine.
C15_FailsWithoutFloatTextures ==
  (host.context # "none" /\ ~(Extensions \subseteq gl.extensions)) =>
    host.fluidSim = "null"

----------------------------------------------------------------------------
(* C16 *)

\* C16: when one of the nine programs did not compile or link, either there
\* is no engine or every update() draws no pass at all.
C16_NoMissingStage ==
  (host.context # "none" /\ gl.linked # Programs) =>
    \/ host.fluidSim = "null"
    \/ lastCall.op = "update" => draws = <<>>

----------------------------------------------------------------------------
(* C17 *)

\* The ranges the config is documented to have.
ValidConfig(c) ==
  /\ 0 < c.DENSITY_DISSIPATION /\ c.DENSITY_DISSIPATION <= FP
  /\ 0 < c.VELOCITY_DISSIPATION /\ c.VELOCITY_DISSIPATION <= FP
  /\ c.PRESSURE_ITERATIONS >= 0
  /\ c.SIM_RESOLUTION > 0 /\ c.DYE_RESOLUTION > 0
  /\ c.SPLAT_RADIUS > 0

\* C17: a config outside the documented ranges yields no usable engine.
C17_ConfigValidated ==
  ~ValidConfig(host.config0) => host.fluidSim = "null"

----------------------------------------------------------------------------
(* C18 *)

\* The draws of the last call by program and by the field they render into.
DrawsOf(program, field) ==
  {i \in 1 .. Len(draws) :
     draws[i].program = program /\ FieldOf(draws[i].target) = field}

\* The last update() ran with the parameters of the config c.
UpdateUsed(c) ==
  /\ Cardinality(DrawsOf("pressure", "pressure")) = c.PRESSURE_ITERATIONS
  /\ \A i \in DrawsOf("vorticity", "velocity") : draws[i].uniforms.curl = c.CURL
  /\ \A i \in DrawsOf("advection", "velocity") :
       draws[i].uniforms.dissipation = c.VELOCITY_DISSIPATION
  /\ \A i \in DrawsOf("advection", "density") :
       draws[i].uniforms.dissipation = c.DENSITY_DISSIPATION
  /\ DrawsOf("vorticity", "velocity") # {}
  /\ DrawsOf("advection", "velocity") # {}
  /\ DrawsOf("advection", "density") # {}

\* C18 as stated: every update() uses the values the config held when the
\* engine was constructed.
C18_Original ==
  lastCall.op = "update" => UpdateUsed(host.config0)

\* C18: every update() uses the pressure iteration count, curl strength and
\* dissipations the config object holds when that update() runs, whatever it
\* held at construction; the grids keep the resolutions of construction.
C18_ConfigReadAtUpdate ==
  /\ lastCall.op = "update" => UpdateUsed(sim.config)
  /\ sim.simWidth = getResolution(sim.width, sim.height, host.config0.SIM_RESOLUTION).width
  /\ sim.dyeWidth = getResolution(sim.width, sim.height, host.config0.DYE_RESOLUTION).width

C18_Witness ==
  /\ lastCall.op = "update"
  /\ prev.call.op = "setConfig"
  /\ host.config0.PRESSURE_ITERATIONS = 1
  /\ sim.config.PRESSURE_ITERATIONS = 2
  /\ Cardinality(DrawsOf("pressure", "pressure")) = 2
  /\ sim.simWidth = 2

----------------------------------------------------------------------------
(* C19 *)

\* The largest absolute value of the first n channels of a texel.
TexelPeak(t, n) ==
  IF n = 2 THEN Max(Abs(t[1]), Abs(t[2]))
           ELSE Max(Abs(t[1]), Max(Abs(t[2]), Abs(t[3])))

\* The largest absolute value in the first n channels of the first k cells.
RECURSIVE PeakFrom(_, _, _)
PeakFrom(data, n, k) ==
  IF k = 0 THEN 0 ELSE Max(PeakFrom(data, n, k - 1), TexelPeak(data[k], n))

\* The maximum cell magnitude of the velocity and of the dye of an engine S
\* on the context G.
PeakVelocity(G, S) ==
  PeakFrom(G.tex[S.velocity.read].data, 2, Len(G.tex[S.velocity.read].data))

PeakDye(G, S) ==
  PeakFrom(G.tex[S.density.read].data, 3, Len(G.tex[S.density.read].data))

\* The peak after is the peak before times the factor, or less, up to the
\* rounding of the stored values.
Shrinks(after, before, factor) ==
  /\ after <= before
  /\ after <= Mul(factor, before) + Rounding(before)

\* C19 as stated: every update() leaves the maximum magnitude of the velocity
\* and of the dye no larger than before, shrunk by the dissipation factor.
C19_Original ==
  [][lastCall'.op = "update" =>
       /\ Shrinks(PeakVelocity(gl', sim'), PeakVelocity(gl, sim),
                  sim.config.VELOCITY_DISSIPATION)
       /\ Shrinks(PeakDye(gl', sim'), PeakDye(gl, sim),
                  sim.config.DENSITY_DISSIPATION)]_vars

\* C19: every update() leaves the maximum magnitude of the dye no larger than
\* before and at most the density dissipation times the maximum before, up
\* to the rounding of the stored values.  (The velocity may grow.)
C19_DyeDecays ==
  [][lastCall'.op = "update" =>
       Shrinks(PeakDye(gl', sim'), PeakDye(gl, sim),
               sim.config.DENSITY_DISSIPATION)]_vars

\* After an update() the dye before it is still in density.write.
C19_Witness ==
  /\ lastCall.op = "update"
  /\ prev.call.op = "splat"
  /\ draws[Len(draws) - 1].samplers.uSource = sim.density.write
  /\ PeakFrom(gl.tex[sim.density.write].data, 3, Len(gl.tex[sim.density.write].data)) = FP
  /\ PeakDye(gl, sim) > 0
  /\ PeakDye(gl, sim) < FP

----------------------------------------------------------------------------
(* C20 *)

\* The grid sizes planned at construction, from the config of that moment.
PlannedSim == getResolution(sim.width, sim.height, host.config0.SIM_RESOLUTION)

PlannedDye == getResolution(sim.width, sim.height, host.config0.DYE_RESOLUTION)

\* The texture of grid b has the size r.
HasShape(b, r) ==
  /\ gl.tex[b].width = r.width
  /\ gl.tex[b].height = r.height
  /\ Len(gl.tex[b].data) = r.width * r.height

\* The double FBO of field f records the size r and its texel size.
FieldHasShape(f, r) ==
  /\ sim[f].width = r.width
  /\ sim[f].height = r.height
  /\ sim[f].texelSizeX = FP \div r.width
  /\ sim[f].texelSizeY = FP \div r.height

\* C20: at every reachable state both velocity grids, both pressure grids,
\* divergence and curl have the sim-grid size planned at construction and
\* both dye grids the planned dye-grid size; no call changes a width, a height
\* or a texel size.
C20_GridShapesFixed ==
  /\ \A b \in {"v1", "v2", "p1", "p2", "div", "curl"} : HasShape(b, PlannedSim)
  /\ \A b \in {"d1", "d2"} : HasShape(b, PlannedDye)
  /\ FieldHasShape("velocity", PlannedSim)
  /\ FieldHasShape("pressure", PlannedSim)
  /\ FieldHasShape("density", PlannedDye)
  /\ sim.simWidth = PlannedSim.width /\ sim.simHeight = PlannedSim.height
  /\ sim.dyeWidth = PlannedDye.width /\ sim.dyeHeight = PlannedDye.height

C20_Witness ==
  /\ calls = 3
  /\ lastCall.op = "update"
  /\ prev.call.op = "splat"
  /\ sim.config.SIM_RESOLUTION = 3
  /\ host.config0.SIM_RESOLUTION = 2
  /\ gl.tex["v1"].width = 2
  /\ gl.tex["d1"].width = 3

----------------------------------------------------------------------------
(* C21 *)

\* The grids of the context G that exist: created and not deleted.
Live(G) == {b \in Buffers : b \in DOMAIN G.tex}

\* C21: after destroy() returns, none of the grids created at construction
\* is still live.
C21_DestroyReleasesGrids ==
  lastCall.op = "destroy" => Live(gl) = {}

----------------------------------------------------------------------------
(* C22 *)

\* The reference planner: the ratio is max(w, h) / min(w, h).
ReferencePlanner(w, h, halves) ==
  LET product == DoubleMulHalves(halves, DoubleDiv(ToDouble(Max(w, h)), ToDouble(Min(w, h))))
  IN IF w > h THEN [width |-> MathRound(product),
                    height |-> RoundDiv(halves, 2)]
              ELSE [width |-> RoundDiv(halves, 2),
                    height |-> MathRound(product)]

\* The reference plan for the call the state records.
Reference == ReferencePlanner(sim.width, sim.height, lastCall.args[1])

\* C22 as stated: getResolution returns the pair of the reference planner
\* for every width, height and resolution.
C22_Original ==
  lastCall.op = "getResolution" => lastCall.result = Reference

\* C22: getResolution returns the pair of the reference planner when the
\* target is at least as wide as tall (a square target gives a square grid);
\* for a taller target the width is the reference width and the height is
\* within one of the reference height, since 1 / (w / h) is not always h / w.
C22_PlannerMatchesReference ==
  lastCall.op = "getResolution" =>
    /\ sim.width >= sim.height => lastCall.result = Reference
    /\ sim.width = sim.height => lastCall.result.width = lastCall.result.height
    /\ sim.width < sim.height =>
         /\ lastCall.result.width = Reference.width
         /\ Abs(lastCall.result.height - Reference.height) <= 1

\* A 10 x 13 target at resolution 5: 5 * 1.3 is 6.5, the reference height is
\* 7 and getResolution returns 6.
C22_Witness ==
  /\ lastCall.op = "getResolution"
  /\ sim.width = 10 /\ sim.height = 13
  /\ lastCall.args = <<10>>
  /\ lastCall.result = [width |-> 5, height |-> 6]
  /\ Reference = [width |-> 5, height |-> 7]

----------------------------------------------------------------------------
(* C23 *)

\* Twice the distance of larger grid side * smaller target side from
\* smaller grid side * larger target side.
AspectError(r, w, h) ==
  2 * Abs(Max(r.width, r.height) * Min(w, h) - Min(r.width, r.height) * Max(w, h))

\* C23 as stated: the larger grid side is within one half of the smaller grid
\* side times the target ratio, and the grid is wider than tall exactly when
\* the target is.
C23_Original ==
  lastCall.op = "getResolution" =>
    /\ AspectError(lastCall.result, sim.width, sim.height) <= Min(sim.width, sim.height)
    /\ lastCall.result.width > lastCall.result.height <=> sim.width > sim.height

\* C23: for a whole resolution the larger grid side is within one half of the
\* smaller grid side times the target ratio; for any resolution the grid is
\* wider than tall only when the target is, taller than wide only when the
\* target is, and square for a square target.
C23_AspectPreserved ==
  lastCall.op = "getResolution" =>
    /\ lastCall.args[1] % 2 = 0 =>
         AspectError(lastCall.result, sim.width, sim.height) <= Min(sim.width, sim.height)
    /\ lastCall.result.width > lastCall.result.height => sim.width > sim.height
    /\ lastCall.result.height > lastCall.result.width => sim.height > sim.width
    /\ sim.width = sim.height => lastCall.result.width = lastCall.result.height

\* A 4 x 3 target at resolution 1 gets a 1 x 1 grid.
C23_Witness ==
  /\ lastCall.op = "getResolution"
  /\ sim.width = 4 /\ sim.height = 3
  /\ lastCall.args = <<2>>
  /\ lastCall.result = [width |-> 1, height |-> 1]

----------------------------------------------------------------------------
(* C24 *)

\* The other engine.
Other(e) == IF e = "A" THEN "B" ELSE "A"

\* The object and the context of engine e are what they were before the
\* last call: field contents, read and write roles, lastTime and config.
Untouched(e) ==
  /\ sim[e] = prev.sim[e]
  /\ gl[host.fluidInit[e].canvas] = prev.gl[host.fluidInit[e].canvas]

\* Engine e is in the state its copy on a page of its own is in.
AsIfAlone(e) ==
  /\ sim[e] = host.alone[e].sim
  /\ gl[host.fluidInit[e].canvas] = host.alone[e].gl

----------------------------------------------------------------------------
(* C25 *)

\* The calls of a frame in order: splats, then one update(), then the copy.
InOrder(log) ==
  /\ Len(log) >= 2
  /\ log[Len(log)] = "drawImage"
  /\ log[Len(log) - 1] = "update"
  /\ \A i \in 1 .. Len(log) - 2 : log[i] = "splat"

\* The scene holds the pixels the engine's canvas has after the update().
CopiedAfterUpdate == host.scene = gl.tex[Screen]

----------------------------------------------------------------------------
(* C30 *)

\* C30: in the guarded host the frame that catches an exception leaves
\* showFluid false and fluidSim null, and from then on fluidSim stays null
\* and no frame calls splat() or update(), whatever the F key does.
C30_LatchedOff ==
  /\ (lastCall.op = "draw" /\ lastCall.threw) =>
       ~host.showFluid /\ host.fluidSim = "null" /\ host.latched
  /\ host.latched =>
       /\ host.fluidSim = "null"
       /\ (lastCall.op = "draw" /\ ~lastCall.threw) => host.log = <<>>

\* update() threw in the first frame, F was pressed, and the next frame
\* called nothing.
C30_Witness ==
  /\ host.variant = "guarded"
  /\ host.latched
  /\ host.showFluid
  /\ host.frames = 2
  /\ lastCall.op = "draw"
  /\ lastCall.showFluid
  /\ host.log = <<>>
  /\ sim.lastTime > 1000000

----------------------------------------------------------------------------
(* injectSplat(fluidSim, x, y, dx, dy, color, radius, force): the helper   *)
(* the hosts call with their fluidSim global, which is null until setup()  *)
(* got an engine.                                                          *)

\* What the caller passes as fluidSim: the engine when the host has one, or
\* null, or nothing at all.
Holders(h) == IF h.fluidSim = "engine" THEN {"engine", "null", "undefined"}
              ELSE {"null", "undefined"}

\* The remaining arguments the caller uses.
InjectArgs ==
  {[x |-> 250000, y |-> 250000, dx |-> 500000, dy |-> 250000,
    color |-> [r |-> FP, g |-> 0, b |-> 0], radius |-> 25 * FP, force |-> 6 * FP],
   [x |-> 750000, y |-> 250000, dx |-> 0 - FP, dy |-> 2 * FP,
    color |-> [r |-> 0, g |-> FP \div 2, b |-> FP], radius |-> 250000, force |-> FP \div 2],
   [x |-> 250000, y |-> 750000, dx |-> 0, dy |-> 0,
    color |-> [r |-> FP, g |-> FP, b |-> 0], radius |-> 50 * FP, force |-> 50000]}

\* !fluidSim
Not(fluidSim) == fluidSim \in {"null", "undefined"}

\* injectSplat that passes the velocity on without the force.
injectSplatUnscaled(M, fluidSim, x, y, dx, dy, color, radius, force) ==
  IF Not(fluidSim) THEN M
  ELSE splat(M, x, y, dx, dy, color.r, color.g, color.b, radius)

injectSplat(M, fluidSim, x, y, dx, dy, color, radius, force) ==
  IF Not(fluidSim) THEN M
  ELSE splat(M, x, y, Mul(dx, force), Mul(dy, force), color.r, color.g, color.b, radius)

InjectBrowsers ==
  {[contexts |-> {"webgl2", "webgl"}, extensions |-> Extensions, broken |-> {}],
   [contexts |-> {"webgl"}, extensions |-> {}, broken |-> {}],
   [contexts |-> {}, extensions |-> {}, broken |-> {}]}

InjectInit ==
  \E b \in InjectBrowsers, t \in StartTimes :
    \E cfg \in {c \in Configs : c.PRESSURE_ITERATIONS = 1} :
      \E fluidInit \in {initFluidSimulation(b, 2, 2, cfg, t)} :
        /\ sim = IF fluidInit.ok THEN fluidInit.sim ELSE NoEngine
        /\ gl = IF fluidInit.ok THEN fluidInit.gl ELSE NoContext
        /\ draws = <<>>
        /\ prev = [call |-> NoCall, draws |-> <<>>,
                   sim |-> IF fluidInit.ok THEN fluidInit.sim ELSE NoEngine]
        /\ lastCall = NoCall
        /\ calls = 0
        /\ host = setup(fluidInit, b, cfg)

InjectSplat ==
  /\ calls < MaxCalls
  /\ \E a \in InjectArgs, fluidSim \in Holders(host) :
       \E M \in {injectSplat([sim |-> sim, gl |-> gl, draws |-> <<>>], fluidSim,
                             a.x, a.y, a.dx, a.dy, a.color, a.radius, a.force)} :
         /\ sim' = M.sim
         /\ gl' = M.gl
         /\ draws' = M.draws
         /\ prev' = [call |-> lastCall, draws |-> draws, sim |-> sim]
         /\ lastCall' = [op |-> "injectSplat", args |-> a, now |-> 0, dt |-> 0,
                         fluidSim |-> fluidSim]
         /\ calls' = calls + 1
         /\ UNCHANGED host

InjectNext == InjectSplat

InjectSpec == InjectInit /\ [][InjectNext]_vars

----------------------------------------------------------------------------
(* C26 *)

\* The two buffers the constructor allocated for the field f.
Allocated(f) ==
  CASE f = "density"  -> {"d1", "d2"}
    [] f = "velocity" -> {"v1", "v2"}
    [] f = "pressure" -> {"p1", "p2"}

\* C26: for every double-buffered field, in every reachable state read and
\* write are two different buffers and together they are exactly the two
\* buffers allocated at construction; the context holds the eight grids of
\* construction and no other.
C26_TwoBuffersPerField ==
  /\ \A f \in Fields :
       /\ sim[f].read # sim[f].write
       /\ {sim[f].read, sim[f].write} = Allocated(f)
  /\ DOMAIN gl.tex \ {Screen, "none"} = Buffers

\* After a splat() and an update() the velocity and pressure roles are
\* exchanged while the dye roles are back where construction put them.
C26_Witness ==
  /\ calls = 2
  /\ lastCall.op = "update"
  /\ prev.call.op = "splat"
  /\ sim.velocity.read = "v1" /\ sim.velocity.write = "v2"
  /\ prev.sim.velocity.read = "v2"
  /\ sim.density.read = "d1" /\ prev.sim.density.read = "d2"

----------------------------------------------------------------------------
(* C27 *)

\* The channels a grid stores, by the format createFBO asked for.
Channels(b) ==
  CASE InternalFormat[b] = "R"  -> {1}
    [] InternalFormat[b] = "RG" -> {1, 2}
    [] OTHER -> {1, 2, 3, 4}

\* Every cell of velocity, pressure, divergence, curl and dye is zero.
ZeroField ==
  \A b \in Buffers :
    \A i \in 1 .. Len(gl.tex[b].data) :
      \A k \in Channels(b) : gl.tex[b].data[i][k] = 0

\* C27: the all-zero state is a fixed point of the pipeline: a freshly
\* constructed engine holds zero in every cell of velocity, pressure,
\* divergence, curl and dye, and an update() with any clamped dt that starts
\* from all-zero fields leaves all of them zero.
C27_ZeroIsFixedPoint ==
  /\ calls = 0 => ZeroField
  /\ [][(ZeroField /\ lastCall'.op = "update") => ZeroField']_vars

\* Two update() calls with a positive dt on an engine that got no splat.
C27_Witness ==
  /\ calls = 2
  /\ lastCall.op = "update" /\ lastCall.dt > 0
  /\ prev.call.op = "update" /\ prev.call.dt > 0
  /\ sim.config.CURL > 0
  /\ ZeroField

----------------------------------------------------------------------------
(* C28 *)

\* The one draw of the last call with this program into this field.
TheDraw(program, field) == CHOOSE i \in DrawsOf(program, field) : TRUE

\* C28: within one update() the vorticity pass, the velocity advection pass
\* and the dye advection pass run once each with the same dt, the clamped dt
\* of that update(); the dye advection uses the dye grid's texel size and the
\* density dissipation, the velocity advection the velocity grid's texel size
\* and the velocity dissipation.
C28_SharedDtOwnTexel ==
  lastCall.op = "update" =>
    /\ Cardinality(DrawsOf("vorticity", "velocity")) = 1
    /\ Cardinality(DrawsOf("advection", "velocity")) = 1
    /\ Cardinality(DrawsOf("advection", "density")) = 1
    /\ draws[TheDraw("vorticity", "velocity")].uniforms.dt = lastCall.dt
    /\ draws[TheDraw("advection", "velocity")].uniforms.dt = lastCall.dt
    /\ draws[TheDraw("advection", "density")].uniforms.dt = lastCall.dt
    /\ draws[TheDraw("advection", "density")].uniforms.texelSize =
         <<sim.density.texelSizeX, sim.density.texelSizeY>>
    /\ draws[TheDraw("advection", "density")].uniforms.dissipation =
         sim.config.DENSITY_DISSIPATION
    /\ draws[TheDraw("advection", "velocity")].uniforms.texelSize =
         <<sim.velocity.texelSizeX, sim.velocity.texelSizeY>>
    /\ draws[TheDraw("advection", "velocity")].uniforms.dissipation =
         sim.config.VELOCITY_DISSIPATION

\* An update() with a 5 ms step on an engine whose dye grid is 3 x 3 and whose
\* velocity grid is 2 x 2, after an update() with another step.
C28_Witness ==
  /\ lastCall.op = "update"
  /\ lastCall.dt = 5000
  /\ prev.call.op = "update"
  /\ prev.call.dt # 5000
  /\ sim.dyeWidth = 3 /\ sim.simWidth = 2
  /\ draws[TheDraw("advection", "density")].uniforms.dt = 5000
  /\ draws[TheDraw("advection", "density")].uniforms.texelSize = <<333333, 333333>>
  /\ draws[TheDraw("advection", "velocity")].uniforms.texelSize = <<500000, 500000>>
  /\ sim.config.DENSITY_DISSIPATION # sim.config.VELOCITY_DISSIPATION

----------------------------------------------------------------------------
(* C29 *)

\* The product of two numbers that are whole thousandths.
Product(a, b) == (a \div 1000) * (b \div 1000)

\* C29: injectSplat with a null or undefined fluidSim leaves the engine, the
\* context and every grid as they were and draws nothing; with an engine it
\* makes exactly one splat() call, one velocity pass and one dye pass, at the
\* point (x, y) with the radius passed on, the velocity (dx * force,
\* dy * force) and the colour (color.r, color.g, color.b).
C29_InjectSplatForwards ==
  [][lastCall'.op = "injectSplat" =>
       LET a == lastCall'.args
       IN IF lastCall'.fluidSim \in {"null", "undefined"}
          THEN sim' = sim /\ gl' = gl /\ draws' = <<>>
          ELSE /\ Len(draws') = 2
               /\ draws'[1].program = "splat" /\ draws'[2].program = "splat"
               /\ draws'[1].target = sim.velocity.write
               /\ draws'[2].target = sim.density.write
               /\ draws'[1].uniforms.point = <<a.x, FP - a.y>>
               /\ draws'[2].uniforms.point = <<a.x, FP - a.y>>
               /\ draws'[1].uniforms.radius = a.radius \div 100
               /\ draws'[2].uniforms.radius = a.radius \div 100
               /\ draws'[1].uniforms.color =
                    <<Product(a.dx, a.force), 0 - Product(a.dy, a.force), 0>>
               /\ draws'[2].uniforms.color = <<a.color.r, a.color.g, a.color.b>>]_vars

\* An engine got dx = 0.5 with force 6 and then a call with no engine passed.
C29_Witness ==
  /\ calls = 2
  /\ lastCall.op = "injectSplat"
  /\ lastCall.fluidSim = "undefined"
  /\ host.fluidSim = "engine"
  /\ draws = <<>>
  /\ prev.call.op = "injectSplat"
  /\ prev.call.fluidSim = "engine"
  /\ prev.call.args.force = 6 * FP
  /\ prev.draws[1].uniforms.color = <<3 * FP, 0 - 1500000, 0>>

====
